---- MODULE Spec2Model ----
(***************************************************************************)
(* Agent Team Orchestrator (src/2026-02-09/agent_team.py): the file-based  *)
(* TaskRegistry (task files, lock files, archive), the WorkspaceManager    *)
(* (one shared bare repository, one clone per agent) and the agent loops   *)
(* of AgentTeamOrchestrator.run.                                           *)
(*                                                                         *)
(* Every step of an agent that touches a shared file or the shared         *)
(* repository is an action of its own, so that the steps of different      *)
(* agents interleave as the threads of the ThreadPoolExecutor do.          *)
(*                                                                         *)
(* The last sections model the TaskQueue and AgentTeam of                  *)
(* src/2026-02-06/agent_team.py and the in-memory orchestrator of          *)
(* src/2026-02-13/agent_teams.py over the same variables; each section     *)
(* says what the variables hold there.                                     *)
(***************************************************************************)
EXTENDS Integers, Sequences, FiniteSets, TLC

VARIABLES
    tasks,            \* registry/tasks/<id>.json: the last content written
    torn,             \* ids whose task file is opened for writing (truncated, empty)
                      \* (two writers at once: the file holds what the last one wrote;
                      \* bytes a longer earlier write leaves behind are not modelled)
    locks,            \* registry/current_tasks/*.lock: per file its content (agent_id None: still empty) and, as history, the agent that created it
    completed_tasks,  \* registry/completed_tasks/<id>.json
    globOrder,        \* the order in which tasks_dir.glob lists the task files
    upstream,         \* the shared bare repository: changes contained in main
    workspace,        \* per agent: its clone (commits, index, working tree)
    agents,           \* per agent: current_task, tasks_completed, tasks_failed
    pc,               \* per agent: the statement it is at
    frame,            \* per agent: the local variables of its calls
    runPc,            \* where AgentTeamOrchestrator.run is
    report,           \* what run returned
    faults,           \* how many git commands may still fail for outside reasons
    calls,            \* registry calls issued by the callers of SpecRegistry
    claimLog,         \* history: per task, the agents whose claim_task returned True, or raised, since the lock was last absent
    invocations,      \* history: per task, how often task_handler was invoked
    handler           \* the task_handler given to run: what it does on each task

vars == <<tasks, torn, locks, completed_tasks, globOrder, upstream, workspace,
          agents, pc, frame, runPc, report, faults, calls, claimLog, invocations,
          handler>>

(***************************************************************************)
(* Bounds                                                                  *)
(***************************************************************************)
\* agent_loop's max_iterations (100 by default), cut down
MaxIterations == 2
\* how many git commands may fail for outside reasons in one run
MaxFaults == 1
\* how many registry calls the callers of SpecRegistry issue
MaxCalls == 4

AgentIds == {"agent-00", "agent-01"}
TaskIds == {"A", "B", "C"}

None == "None"
\* any value of time.time()
Time == "time"
\* any non-empty text: what a handler reports, str(e) of an exception
Message == "message"

(***************************************************************************)
(* Task (dataclass) and TaskStatus                                         *)
(***************************************************************************)
TaskStatus == {"pending", "claimed", "in_progress", "completed", "failed", "blocked"}

Task(deps, prio) ==
    [status |-> "pending", claimed_by |-> None, claimed_at |-> None,
     completed_at |-> None, dependencies |-> deps, result |-> None,
     error |-> None, priority |-> prio]

Agent == [current_task |-> None, tasks_completed |-> 0, tasks_failed |-> 0]

\* Scenario A: tasks A, B, C of equal priority, C depending on A and B
ScenarioA == [t \in TaskIds |-> Task(IF t = "C" THEN {"A", "B"} ELSE {}, 0)]

\* no task read (get_task not called, or its result dropped)
NoTask == [status |-> None]

\* a file of completed_tasks that is not there, and one copied while empty
FileAbsent == [status |-> "absent"]
FileEmpty == [status |-> "empty"]

\* run has returned nothing
NoReport == [task_stats |-> None]

\* get_stats not called
NoStats == [total |-> 0, pending |-> 0, claimed |-> 0, in_progress |-> 0, completed |-> 0,
            failed |-> 0]

NoFrame ==
    [task |-> None, rd |-> NoTask, result |-> None, mode |-> None, overlap |-> FALSE, owned |-> FALSE,
     late |-> FALSE,
     rel_success |-> FALSE, rel_result |-> None, rel_error |-> None,
     available |-> <<>>, idx |-> 0, attempts |-> <<>>, iterations |-> 0, stats |-> NoStats,
     added |-> NoTask, got |-> NoTask,
     success |-> FALSE, push_success |-> FALSE, push_attempts |-> 0,
     first_push |-> None, syncs_after_push |-> 0]


(***************************************************************************)
(* TaskRegistry: reading and listing                                       *)
(***************************************************************************)
LocksOf(t) == {l \in locks : l.task_id = t}

\* lock_file.exists()
LockExists(t) == LocksOf(t) # {}

\* lock_data.get('agent_id'); None while the file is created and not yet written
LockOwner(t) == (CHOOSE l \in LocksOf(t) : TRUE).agent_id

\* the agent whose claim_task call created the lock file
LockHolder(t) == (CHOOSE l \in LocksOf(t) : TRUE).holder

\* json.load of a task file that another thread has opened with 'w' and not
\* yet written reads an empty file and raises JSONDecodeError
Readable(t) == t \notin torn

RECURSIVE SelectSeqIds(_, _)
SelectSeqIds(s, keep) ==
    IF s = <<>> THEN <<>>
    ELSE IF Head(s) \in keep THEN <<Head(s)>> \o SelectSeqIds(Tail(s), keep)
         ELSE SelectSeqIds(Tail(s), keep)

\* sorted(available, key=priority, reverse=True): stable, so tasks of equal
\* priority stay in the order glob listed them; without the sort the list
\* would stay as glob gave it
AsListed(s) == s
RECURSIVE InsertByPriority(_, _)
InsertByPriority(s, t) ==
    IF s = <<>> THEN <<t>>
    ELSE IF tasks[Head(s)].priority < tasks[t].priority THEN <<t>> \o s
         ELSE <<Head(s)>> \o InsertByPriority(Tail(s), t)

RECURSIVE SortedByPriority(_)
SortedByPriority(s) ==
    IF s = <<>> THEN <<>>
    ELSE InsertByPriority(SortedByPriority(SubSeq(s, 1, Len(s) - 1)), s[Len(s)])

\* the dependencies_met callback a caller may pass
DependenciesMet(t) == \A d \in tasks[t].dependencies : tasks[d].status = "completed"

\* agent_loop calls get_available_tasks() with no dependencies_met
LoopPassesDependenciesMet == FALSE

get_available_tasks(with_dependencies_met) ==
    SortedByPriority(SelectSeqIds(globOrder,
        {t \in DOMAIN tasks : /\ tasks[t].status = "pending"
                         /\ (with_dependencies_met => DependenciesMet(t))}))

CountStatus(s) == Cardinality({t \in DOMAIN tasks : tasks[t].status = s})

get_stats ==
    [total |-> Cardinality(DOMAIN tasks), pending |-> CountStatus("pending"),
     claimed |-> CountStatus("claimed"), in_progress |-> CountStatus("in_progress"),
     completed |-> CountStatus("completed"), failed |-> CountStatus("failed")]

(***************************************************************************)
(* TaskRegistry.claim_task(task_id, agent_id); frame[a].task is task_id    *)
(***************************************************************************)
\* a release_task call on t that has passed its ownership check and has not
\* yet written the task file
ReleaseRunning(t) ==
    \E b \in AgentIds : pc[b] \in {"rel_get", "rel_open", "rel_dump"} /\ frame[b].task = t

\* os.open(lock_file, O_CREAT | O_EXCL | O_WRONLY) creates the file only if
\* it is not there; an open with O_CREAT alone would always go through
OpenWithoutOExcl(t) == TRUE
OExclCreates(t) == ~LockExists(t)

\* lines 145 and 163-164: os.open raises FileExistsError before it touches the
\* file, and the handler only returns False; an open with O_TRUNC in place of
\* O_EXCL would empty the lock file of the holder
OpenTruncates(t) ==
    {IF l.task_id = t THEN [l EXCEPT !.agent_id = None, !.claimed_at = None] ELSE l : l \in locks}
FileExistsKeeps(t) == locks

\* lines 141-145 and 163-164: create the lock file, or return False
ClaimLock(a) ==
    /\ pc[a] = "claim_task"
    /\ LET t == frame[a].task IN
       IF OExclCreates(t)
       THEN /\ locks' = locks \cup {[task_id |-> t, agent_id |-> None, claimed_at |-> None,
                                      holder |-> a]}
            /\ pc' = [pc EXCEPT ![a] = "claim_write"]
            /\ frame' = [frame EXCEPT ![a].overlap = ReleaseRunning(t),
                                      ![a].late = (runPc = "shutdown"),
                                      ![a].attempts = Append(@, t)]
       ELSE /\ pc' = [pc EXCEPT ![a] = "claim_ret"]
            /\ frame' = [frame EXCEPT ![a].result = "False", ![a].attempts = Append(@, t)]
            /\ locks' = FileExistsKeeps(t)
    /\ UNCHANGED <<tasks, torn, completed_tasks, globOrder, handler, upstream, workspace,
                   agents, runPc, report, faults, calls, claimLog, invocations>>

\* lines 146-152: lock_data reaches the file when the with block closes it
ClaimWrite(a) ==
    /\ pc[a] = "claim_write"
    /\ LET t == frame[a].task IN
       locks' = {IF l.task_id = t /\ l.holder = a
                 THEN [l EXCEPT !.agent_id = a, !.claimed_at = Time] ELSE l : l \in locks}
    /\ pc' = [pc EXCEPT ![a] = "claim_get"]
    /\ UNCHANGED <<tasks, torn, completed_tasks, globOrder, handler, upstream, workspace,
                   agents, frame, runPc, report, faults, calls, claimLog, invocations>>

\* line 155: get_task
ClaimGet(a) ==
    /\ pc[a] = "claim_get"
    /\ LET t == frame[a].task IN
       IF Readable(t)
       THEN /\ frame' = [frame EXCEPT ![a].rd = tasks[t]]
            /\ pc' = [pc EXCEPT ![a] = "claim_open"]
            /\ UNCHANGED claimLog
       ELSE /\ frame' = [frame EXCEPT ![a].result = "JSONDecodeError"]
            /\ pc' = [pc EXCEPT ![a] = "claim_ret"]
            /\ claimLog' = [claimLog EXCEPT ![t].raised = @ \cup {a}]
    /\ UNCHANGED <<tasks, torn, locks, completed_tasks, globOrder, handler, upstream, workspace,
                   agents, runPc, report, faults, calls, invocations>>

\* lines 160 and 120: add_task's open(task_file, 'w') truncates the file
ClaimOpen(a) ==
    /\ pc[a] = "claim_open"
    /\ torn' = torn \cup {frame[a].task}
    /\ pc' = [pc EXCEPT ![a] = "claim_dump"]
    /\ UNCHANGED <<tasks, locks, completed_tasks, globOrder, handler, upstream, workspace,
                   agents, frame, runPc, report, faults, calls, claimLog, invocations>>

\* lines 157-162 and 121: the task as read, now claimed, is written; return True
ClaimDump(a) ==
    /\ pc[a] = "claim_dump"
    /\ LET t == frame[a].task IN
       /\ tasks' = [tasks EXCEPT ![t] =
                      [frame[a].rd EXCEPT !.status = "claimed", !.claimed_by = a,
                                          !.claimed_at = Time]]
       /\ torn' = torn \ {t}
       /\ claimLog' = [claimLog EXCEPT ![t].won = @ \cup {a}]
    /\ frame' = [frame EXCEPT ![a].result = "True", ![a].rd = NoTask]
    /\ pc' = [pc EXCEPT ![a] = "claim_ret"]
    /\ UNCHANGED <<locks, completed_tasks, globOrder, handler, upstream, workspace,
                   agents, runPc, report, faults, calls, invocations>>

(***************************************************************************)
(* TaskRegistry.release_task(task_id, agent_id, success, result, error)    *)
(***************************************************************************)
\* inside release_task: its arguments, and of the caller's locals only what
\* the caller still reads when the call is over
CalleeFrame(fr) ==
    [NoFrame EXCEPT !.task = fr.task, !.mode = fr.mode, !.iterations = fr.iterations,
                    !.rel_success = fr.rel_success, !.rel_result = fr.rel_result,
                    !.rel_error = fr.rel_error]

\* lines 170-180: the ownership check and the unlink.  json.load of a lock
\* file that is created and not yet written raises JSONDecodeError.  (If the
\* owner unlinks the file between exists() and open(), the open raises
\* FileNotFoundError: to the callers the same as the PermissionError of the
\* check made a moment earlier.)
ReleaseCheck(a) ==
    /\ pc[a] = "release_task"
    /\ LET t == frame[a].task IN
       IF LockExists(t)
       THEN IF LockOwner(t) # a
            THEN /\ frame' = [frame EXCEPT ![a] =
                                [CalleeFrame(@) EXCEPT !.result =
                                    IF LockOwner(t) = None THEN "JSONDecodeError"
                                    ELSE "PermissionError"]]
                 /\ pc' = [pc EXCEPT ![a] = "rel_ret"]
                 /\ UNCHANGED <<locks, claimLog>>
            ELSE /\ locks' = locks \ LocksOf(t)
                 /\ claimLog' = [claimLog EXCEPT ![t] = [won |-> {}, raised |-> {}]]
                 /\ pc' = [pc EXCEPT ![a] = "rel_get"]
                 /\ frame' = [frame EXCEPT ![a] = [CalleeFrame(@) EXCEPT !.owned = TRUE]]
       ELSE /\ pc' = [pc EXCEPT ![a] = "rel_get"]
            /\ frame' = [frame EXCEPT ![a] = CalleeFrame(@)]
            /\ UNCHANGED <<locks, claimLog>>
    /\ UNCHANGED <<tasks, torn, completed_tasks, globOrder, handler, upstream, workspace,
                   agents, runPc, report, faults, calls, invocations>>

\* line 183: get_task
ReleaseGet(a) ==
    /\ pc[a] = "rel_get"
    /\ LET t == frame[a].task IN
       IF Readable(t)
       THEN /\ frame' = [frame EXCEPT ![a].rd = tasks[t]]
            /\ pc' = [pc EXCEPT ![a] = "rel_open"]
       ELSE /\ frame' = [frame EXCEPT ![a].result = "JSONDecodeError"]
            /\ pc' = [pc EXCEPT ![a] = "rel_ret"]
    /\ UNCHANGED <<tasks, torn, locks, completed_tasks, globOrder, handler, upstream, workspace,
                   agents, runPc, report, faults, calls, claimLog, invocations>>

\* lines 189 and 120: add_task's open(task_file, 'w') truncates the file
ReleaseOpen(a) ==
    /\ pc[a] = "rel_open"
    /\ torn' = torn \cup {frame[a].task}
    /\ pc' = [pc EXCEPT ![a] = "rel_dump"]
    /\ UNCHANGED <<tasks, locks, completed_tasks, globOrder, handler, upstream, workspace,
                   agents, frame, runPc, report, faults, calls, claimLog, invocations>>

\* lines 185-189: the task as read, now completed or failed, is written
ReleaseDump(a) ==
    /\ pc[a] = "rel_dump"
    /\ LET t == frame[a].task IN
       /\ tasks' = [tasks EXCEPT ![t] =
                      [frame[a].rd EXCEPT
                          !.status = IF frame[a].rel_success THEN "completed" ELSE "failed",
                          !.completed_at = Time,
                          !.result = frame[a].rel_result,
                          !.error = frame[a].rel_error]]
       /\ torn' = torn \ {t}
    /\ frame' = [frame EXCEPT ![a].rd = NoTask]
    /\ pc' = [pc EXCEPT ![a] = "rel_copy"]
    /\ UNCHANGED <<locks, completed_tasks, globOrder, handler, upstream, workspace, agents,
                   runPc, report, faults, calls, claimLog, invocations>>

\* what shutil.copy finds in a task file
FileContent(t) == IF Readable(t) THEN tasks[t] ELSE FileEmpty

\* lines 192-195: shutil.copy(src, dst) into completed_tasks
ReleaseCopy(a) ==
    /\ pc[a] = "rel_copy"
    /\ LET t == frame[a].task IN
       completed_tasks' = [completed_tasks EXCEPT ![t] = FileContent(t)]
    /\ frame' = [frame EXCEPT ![a].result = "None"]
    /\ pc' = [pc EXCEPT ![a] = "rel_ret"]
    /\ UNCHANGED <<tasks, torn, locks, globOrder, handler, upstream, workspace, agents,
                   runPc, report, faults, calls, claimLog, invocations>>

\* what a call of the registry may raise, and a handler
Exceptions == {"PermissionError", "JSONDecodeError"}

(***************************************************************************)
(* WorkspaceManager.  A repository is the set of changes its main branch   *)
(* contains; the change <<a, t>> is agent a's version of outputs/<t>.txt.  *)
(* The shared repository only moves by fast-forward pushes, so one history *)
(* contains another exactly if its set of changes does.                    *)
(***************************************************************************)
FilesOf(changes) == {c[2] : c \in changes}

\* what a git command meets outside the model: a fetch or a commit may fail
GitWeather == {"fine", "fetch_fails", "commit_fails"}

\* lines 317-320: git merge --abort puts the workspace back where it was before
\* the merge; without it the workspace would stay in the conflicted merge,
\* its files holding what came from the shared repository
MergeNotAborted(ws) == [ws EXCEPT !.worktree = @ \cup FilesOf(upstream \ ws.commits)]
MergeAborted(ws) == ws

\* lines 305-322: git fetch origin; git merge origin/main --no-edit; on a
\* failed merge, git merge --abort.  Returns (success, the workspace after).
sync_workspace(a, weather) ==
    LET ws == workspace[a]
        incoming == upstream \ ws.commits
        local == ws.commits \ upstream
        files == FilesOf(incoming)
    IN  IF weather = "fetch_fails" THEN [ok |-> FALSE, ws |-> ws]
        ELSE IF incoming = {} THEN [ok |-> TRUE, ws |-> ws]
        ELSE IF local = {}
             THEN \* fast-forward: refused if it would overwrite a local file
                  IF files \cap (ws.staged \cup ws.worktree) # {}
                  THEN [ok |-> FALSE, ws |-> ws]
                  ELSE [ok |-> TRUE, ws |-> [ws EXCEPT !.commits = upstream]]
             ELSE \* a merge commit: refused with staged changes, or if it
                  \* would overwrite a local file; conflicts are aborted
                  IF \/ ws.staged # {}
                     \/ files \cap ws.worktree # {}
                  THEN [ok |-> FALSE, ws |-> ws]
                  ELSE IF files \cap FilesOf(local) # {}
                  THEN [ok |-> FALSE, ws |-> MergeAborted(ws)]
                  ELSE [ok |-> TRUE, ws |-> [ws EXCEPT !.commits = @ \cup upstream]]

\* line 342: git push origin main is refused unless the pushed history
\* contains the main branch of the shared repository; git push --force would
\* never be refused
ForcedPush(commits) == FALSE
NonFastForward(commits) == ~(upstream \subseteq commits)

\* lines 324-348: git add -A; git diff --cached --quiet; git commit; git push
\* origin main.  Returns (success, workspace after, shared repository after).
push_changes(a, weather) ==
    LET ws == workspace[a]
        index == ws.staged \cup ws.worktree
        committed == [commits |-> ws.commits \cup {<<a, t>> : t \in index},
                      staged |-> {}, worktree |-> {}]
    IN  IF index = {}
        THEN [ok |-> TRUE, step |-> "no_changes", ws |-> ws, upstream |-> upstream]
        ELSE IF weather = "commit_fails"
        THEN [ok |-> FALSE, step |-> "commit_failed",
              ws |-> [ws EXCEPT !.staged = index, !.worktree = {}], upstream |-> upstream]
        ELSE IF ~NonFastForward(committed.commits)
        THEN [ok |-> TRUE, step |-> "pushed", ws |-> committed,
              upstream |-> committed.commits]
        ELSE [ok |-> FALSE, step |-> "rejected", ws |-> committed, upstream |-> upstream]

\* whether the weather may turn on this command
WeatherAt(command) ==
    {"fine"} \cup (IF faults > 0 THEN {command} ELSE {})

(***************************************************************************)
(* AgentTeamOrchestrator.agent_loop and execute_task                       *)
(***************************************************************************)
\* the thread of agent_loop has ended with an exception
Crashed(exception) == [NoFrame EXCEPT !.result = exception]

\* lines 462-476: the loop test and get_available_tasks()
LoopIter(a) ==
    /\ pc[a] = "agent_loop"
    /\ IF frame[a].iterations >= MaxIterations
       THEN /\ pc' = [pc EXCEPT ![a] = "exit_max_iterations"]
            /\ frame' = [frame EXCEPT ![a] = NoFrame]
       ELSE LET fr == [NoFrame EXCEPT !.iterations = frame[a].iterations + 1]
                available == get_available_tasks(LoopPassesDependenciesMet)
            IN  IF torn # {}
                THEN \* get_task raises inside get_available_tasks
                     /\ pc' = [pc EXCEPT ![a] = "crashed"]
                     /\ frame' = [frame EXCEPT ![a] = Crashed("JSONDecodeError")]
                ELSE IF available = <<>>
                THEN /\ pc' = [pc EXCEPT ![a] = "get_stats"]
                     /\ frame' = [frame EXCEPT ![a] = fr]
                ELSE /\ pc' = [pc EXCEPT ![a] = "claim_task"]
                     /\ frame' = [frame EXCEPT ![a] =
                                    [fr EXCEPT !.available = available, !.idx = 1,
                                               !.task = available[1]]]
    /\ UNCHANGED <<tasks, torn, locks, completed_tasks, globOrder, handler, upstream, workspace,
                   agents, runPc, report, faults, calls, claimLog, invocations>>

\* lines 468-471: nothing available; stats = self.registry.get_stats()
CheckStats(a) ==
    /\ pc[a] = "get_stats"
    /\ IF torn # {}
       THEN /\ pc' = [pc EXCEPT ![a] = "crashed"]
            /\ frame' = [frame EXCEPT ![a] = Crashed("JSONDecodeError")]
       ELSE /\ pc' = [pc EXCEPT ![a] = "check_stats"]
            /\ frame' = [frame EXCEPT ![a].stats = get_stats]
    /\ UNCHANGED <<tasks, torn, locks, completed_tasks, globOrder, handler, upstream, workspace,
                   agents, runPc, report, faults, calls, claimLog, invocations>>

\* lines 472-476: log and leave the loop unless the stats count a task that is
\* claimed or in progress; otherwise sleep and go round again
ExitCheck(a) ==
    /\ pc[a] = "check_stats"
    /\ IF frame[a].stats.claimed = 0 /\ frame[a].stats.in_progress = 0
       THEN /\ pc' = [pc EXCEPT ![a] = "exit_all_complete"]
            /\ frame' = [frame EXCEPT ![a] = NoFrame]
       ELSE /\ pc' = [pc EXCEPT ![a] = "agent_loop"]
            /\ frame' = [frame EXCEPT ![a].stats = NoStats]
    /\ UNCHANGED <<tasks, torn, locks, completed_tasks, globOrder, handler, upstream, workspace,
                   agents, runPc, report, faults, calls, claimLog, invocations>>

\* lines 480-490: what the loop does with claim_task's answer
AfterClaim(a) ==
    /\ pc[a] = "claim_ret"
    /\ LET fr == frame[a] IN
       CASE fr.result = "True" ->
              /\ agents' = [agents EXCEPT ![a].current_task = fr.task]
              /\ pc' = [pc EXCEPT ![a] = "execute_task"]
              /\ frame' = [frame EXCEPT ![a] =
                             [NoFrame EXCEPT !.task = fr.task, !.iterations = fr.iterations]]
         [] fr.result = "False" /\ fr.idx < Len(fr.available) ->
              /\ frame' = [frame EXCEPT ![a].idx = fr.idx + 1,
                                        ![a].task = fr.available[fr.idx + 1]]
              /\ pc' = [pc EXCEPT ![a] = "claim_task"]
              /\ UNCHANGED agents
         [] fr.result = "False" /\ fr.idx >= Len(fr.available) ->
              /\ pc' = [pc EXCEPT ![a] = "agent_loop"]
              /\ frame' = [frame EXCEPT ![a] = [NoFrame EXCEPT !.iterations = fr.iterations]]
              /\ UNCHANGED agents
         [] OTHER ->
              \* claim_task raised: nothing in agent_loop catches it
              /\ pc' = [pc EXCEPT ![a] = "crashed"]
              /\ frame' = [frame EXCEPT ![a] = Crashed(fr.result)]
              /\ UNCHANGED agents
    /\ UNCHANGED <<tasks, torn, locks, completed_tasks, globOrder, handler, upstream, workspace,
                   runPc, report, faults, calls, claimLog, invocations>>

\* line 413: the sync before the task; its failure is only logged
ExecSync(a) ==
    /\ pc[a] = "execute_task"
    /\ \E weather \in WeatherAt("fetch_fails") :
          /\ workspace' = [workspace EXCEPT ![a] = sync_workspace(a, weather).ws]
          /\ faults' = IF weather = "fine" THEN faults ELSE faults - 1
    /\ pc' = [pc EXCEPT ![a] = "task_handler"]
    /\ UNCHANGED <<tasks, torn, locks, completed_tasks, globOrder, handler, upstream, agents,
                   frame, runPc, report, calls, claimLog, invocations>>

\* the arguments of the release_task call of execute_task
ReleaseArgs(fr, mode, success) ==
    [fr EXCEPT !.mode = mode, !.rel_success = success,
               !.rel_result = IF success THEN Message ELSE None,
               !.rel_error = IF success THEN None ELSE Message]

\* the handlers run is given: one that succeeds on every task, and those that
\* fail on the tasks of `failing` or raise on those of `raising`
HandlerThat(failing, raising) ==
    [t \in TaskIds |-> IF t \in failing THEN "failure"
                       ELSE IF t \in raising THEN "raise" ELSE "success"]

\* line 418: task_handler(agent, task), as demo_task_handler (lines 537-560):
\* it writes outputs/<task>.txt into the workspace and reports success or
\* failure; a handler may also raise.  The handlers here decide by the task.
Handler(a) ==
    /\ pc[a] = "task_handler"
    /\ LET t == frame[a].task IN
       /\ invocations' = [invocations EXCEPT ![t] = @ + 1]
       /\ LET outcome == handler[t] IN
            CASE outcome = "success" ->
                   /\ workspace' = [workspace EXCEPT ![a].worktree = @ \cup {t}]
                   /\ frame' = [frame EXCEPT ![a].success = TRUE]
                   /\ pc' = [pc EXCEPT ![a] = "push_changes"]
              [] outcome = "failure" ->
                   /\ workspace' = [workspace EXCEPT ![a].worktree = @ \cup {t}]
                   /\ frame' = [frame EXCEPT ![a] =
                                  ReleaseArgs(frame[a], "try", FALSE)]
                   /\ pc' = [pc EXCEPT ![a] = "release_task"]
              [] outcome = "raise" ->
                   /\ frame' = [frame EXCEPT ![a] =
                                  ReleaseArgs(frame[a], "except", FALSE)]
                   /\ pc' = [pc EXCEPT ![a] = "release_task"]
                   /\ UNCHANGED workspace
    /\ UNCHANGED <<tasks, torn, locks, completed_tasks, globOrder, handler, upstream, agents,
                   runPc, report, faults, calls, claimLog>>

\* line 426: the push is tried again if it did not succeed; a loop that
\* pushed again whatever the first push reported would always go on
RetryAlways(push_success) == TRUE
NeedsRetry(push_success) == ~push_success

\* line 435: release_task is given the handler's success, whatever the push did
ReleasedAs(success, push_success) == success

\* lines 420-425: the first push_changes
Push(a) ==
    /\ pc[a] = "push_changes"
    /\ \E weather \in WeatherAt("commit_fails") :
         LET r == push_changes(a, weather) IN
         /\ weather = "commit_fails" => r.step = "commit_failed"
         /\ workspace' = [workspace EXCEPT ![a] = r.ws]
         /\ upstream' = r.upstream
         /\ faults' = IF weather = "fine" THEN faults ELSE faults - 1
         /\ IF NeedsRetry(r.ok)
            THEN /\ frame' = [frame EXCEPT ![a].push_success = r.ok,
                                           ![a].push_attempts = 1,
                                           ![a].first_push = r.step]
                 /\ pc' = [pc EXCEPT ![a] = "retry_sync"]
            ELSE /\ frame' = [frame EXCEPT ![a] =
                                [ReleaseArgs(frame[a], "try",
                                             ReleasedAs(frame[a].success, r.ok))
                                   EXCEPT !.push_success = r.ok, !.push_attempts = 1,
                                          !.first_push = r.step]]
                 /\ pc' = [pc EXCEPT ![a] = "release_task"]
    /\ UNCHANGED <<tasks, torn, locks, completed_tasks, globOrder, handler, agents,
                   runPc, report, calls, claimLog, invocations>>

\* line 428: the sync before the retry; its result is dropped
RetrySync(a) ==
    /\ pc[a] = "retry_sync"
    /\ \E weather \in WeatherAt("fetch_fails") :
          /\ workspace' = [workspace EXCEPT ![a] = sync_workspace(a, weather).ws]
          /\ faults' = IF weather = "fine" THEN faults ELSE faults - 1
    /\ frame' = [frame EXCEPT ![a].syncs_after_push = @ + 1]
    /\ pc' = [pc EXCEPT ![a] = "retry_push"]
    /\ UNCHANGED <<tasks, torn, locks, completed_tasks, globOrder, handler, upstream, agents,
                   runPc, report, calls, claimLog, invocations>>

\* lines 429-436: the second push_changes, then release_task
RetryPush(a) ==
    /\ pc[a] = "retry_push"
    /\ \E weather \in WeatherAt("commit_fails") :
         LET r == push_changes(a, weather) IN
         /\ weather = "commit_fails" => r.step = "commit_failed"
         /\ workspace' = [workspace EXCEPT ![a] = r.ws]
         /\ upstream' = r.upstream
         /\ faults' = IF weather = "fine" THEN faults ELSE faults - 1
         /\ frame' = [frame EXCEPT ![a] =
                        [ReleaseArgs(frame[a], "try",
                                     ReleasedAs(frame[a].success, r.ok))
                           EXCEPT !.push_success = r.ok, !.push_attempts = @ + 1]]
    /\ pc' = [pc EXCEPT ![a] = "release_task"]
    /\ UNCHANGED <<tasks, torn, locks, completed_tasks, globOrder, handler, agents,
                   runPc, report, calls, claimLog, invocations>>

\* an agent loop that left current_task as it was after execute_task
CurrentTaskKept(agent) == agent

\* line 484: agent.current_task = None, once execute_task has returned
AfterExecute(agent) == [agent EXCEPT !.current_task = None]

\* lines 438-451 and 484-486: after release_task returned or raised
AfterRelease(a) ==
    /\ pc[a] = "rel_ret"
    /\ LET fr == frame[a] IN
       CASE fr.result = "None" ->
              \* lines 438-445, or 449-451 in the except branch
              /\ agents' = [agents EXCEPT ![a] = AfterExecute(
                    [@ EXCEPT !.tasks_completed = IF fr.rel_success THEN @ + 1 ELSE @,
                              !.tasks_failed = IF fr.rel_success THEN @ ELSE @ + 1])]
              /\ pc' = [pc EXCEPT ![a] = "agent_loop"]
              /\ frame' = [frame EXCEPT ![a] = [NoFrame EXCEPT !.iterations = fr.iterations]]
         [] fr.result \in Exceptions /\ fr.mode = "try" ->
              \* lines 447-448: release_task(task.id, agent.id, False, error=str(e))
              /\ frame' = [frame EXCEPT ![a] =
                             [ReleaseArgs(fr, "except", FALSE) EXCEPT !.result = None]]
              /\ pc' = [pc EXCEPT ![a] = "release_task"]
              /\ UNCHANGED agents
         [] fr.result \in Exceptions /\ fr.mode = "except" ->
              \* raised inside the except branch: it leaves execute_task and agent_loop
              /\ pc' = [pc EXCEPT ![a] = "crashed"]
              /\ frame' = [frame EXCEPT ![a] =
                             [Crashed(fr.result) EXCEPT !.task = fr.task, !.mode = "except"]]
              /\ UNCHANGED agents
    /\ UNCHANGED <<tasks, torn, locks, completed_tasks, globOrder, handler, upstream, workspace,
                   runPc, report, faults, calls, claimLog, invocations>>

(***************************************************************************)
(* AgentTeamOrchestrator.run                                               *)
(***************************************************************************)
\* the future of agent_loop(a) is done
Finished(a) == pc[a] \in {"exit_all_complete", "exit_max_iterations", "crashed"}

\* lines 510-534: every future completed in time; the results are compiled
RunReturns ==
    /\ runPc = "as_completed"
    /\ \A a \in AgentIds : Finished(a)
    /\ report' = [task_stats |-> get_stats, agent_stats |-> agents]
    /\ runPc' = "returned"
    /\ UNCHANGED <<tasks, torn, locks, completed_tasks, globOrder, handler, upstream, workspace,
                   agents, pc, frame, faults, calls, claimLog, invocations>>

\* line 510: as_completed(futures, timeout=max_time_seconds) raises
\* TimeoutError while a future is pending; no handler encloses the for loop,
\* and leaving the with block waits for the agent loops (executor shutdown)
RunTimeout ==
    /\ runPc = "as_completed"
    /\ \E a \in AgentIds : ~Finished(a)
    /\ runPc' = "shutdown"
    /\ UNCHANGED <<tasks, torn, locks, completed_tasks, globOrder, handler, upstream, workspace,
                   agents, pc, frame, report, faults, calls, claimLog, invocations>>

\* the agent loops have ended: the TimeoutError leaves run
RunRaises ==
    /\ runPc = "shutdown"
    /\ \A a \in AgentIds : Finished(a)
    /\ runPc' = "raised"
    /\ UNCHANGED <<tasks, torn, locks, completed_tasks, globOrder, handler, upstream, workspace,
                   agents, pc, frame, report, faults, calls, claimLog, invocations>>

Init ==
    /\ tasks = ScenarioA
    /\ torn = {}
    /\ locks = {}
    /\ completed_tasks = [t \in TaskIds |-> FileAbsent]
    /\ globOrder = <<"A", "B", "C">>
    /\ upstream = {}
    /\ workspace = [a \in AgentIds |-> [commits |-> {}, staged |-> {}, worktree |-> {}]]
    /\ agents = [a \in AgentIds |-> Agent]
    /\ pc = [a \in AgentIds |-> "agent_loop"]
    /\ frame = [a \in AgentIds |-> NoFrame]
    /\ runPc = "as_completed"
    /\ report = NoReport
    /\ faults = 0
    /\ calls = 0
    /\ claimLog = [t \in TaskIds |-> [won |-> {}, raised |-> {}]]
    /\ invocations = [t \in TaskIds |-> 0]
    /\ handler \in {HandlerThat({}, {}), HandlerThat({"B"}, {"A"})}

Next ==
    \/ \E a \in AgentIds :
        \/ LoopIter(a)
        \/ CheckStats(a)
        \/ ExitCheck(a)
        \/ ClaimLock(a)
        \/ ClaimWrite(a)
        \/ ClaimGet(a)
        \/ ClaimOpen(a)
        \/ ClaimDump(a)
        \/ AfterClaim(a)
        \/ ExecSync(a)
        \/ Handler(a)
        \/ Push(a)
        \/ RetrySync(a)
        \/ RetryPush(a)
        \/ ReleaseCheck(a)
        \/ ReleaseGet(a)
        \/ ReleaseOpen(a)
        \/ ReleaseDump(a)
        \/ ReleaseCopy(a)
        \/ AfterRelease(a)
    \/ RunReturns
    \/ RunTimeout
    \/ RunRaises

Spec == Init /\ [][Next]_vars

\* a step of the thread of agent_loop(a)
AgentStep(a) ==
    \/ LoopIter(a)
    \/ CheckStats(a)
    \/ ExitCheck(a)
    \/ ClaimLock(a)
    \/ ClaimWrite(a)
    \/ ClaimGet(a)
    \/ ClaimOpen(a)
    \/ ClaimDump(a)
    \/ AfterClaim(a)
    \/ ExecSync(a)
    \/ Handler(a)
    \/ Push(a)
    \/ RetrySync(a)
    \/ RetryPush(a)
    \/ ReleaseCheck(a)
    \/ ReleaseGet(a)
    \/ ReleaseOpen(a)
    \/ ReleaseDump(a)
    \/ ReleaseCopy(a)
    \/ AfterRelease(a)

\* SpecLive: two agents and two independent tasks, with the timeout.  The threads of the
\* pool all get to run: no agent loop that can take a step waits for ever.
InitLive ==
    /\ tasks = [t \in {"A", "B"} |-> Task({}, 0)]
    /\ torn = {}
    /\ locks = {}
    /\ completed_tasks = [t \in TaskIds |-> FileAbsent]
    /\ globOrder = <<"A", "B">>
    /\ upstream = {}
    /\ workspace = [a \in AgentIds |-> [commits |-> {}, staged |-> {}, worktree |-> {}]]
    /\ agents = [a \in AgentIds |-> Agent]
    /\ pc = [a \in AgentIds |-> "agent_loop"]
    /\ frame = [a \in AgentIds |-> NoFrame]
    /\ runPc = "as_completed"
    /\ report = NoReport
    /\ faults = 0
    /\ calls = 0
    /\ claimLog = [t \in TaskIds |-> [won |-> {}, raised |-> {}]]
    /\ invocations = [t \in TaskIds |-> 0]
    /\ handler \in {HandlerThat({}, {}), HandlerThat({"A"}, {})}

SpecLive == InitLive /\ [][Next]_vars /\ \A a \in AgentIds : WF_vars(AgentStep(a))

(***************************************************************************)
(* SpecPush: two agents, two independent tasks, a run that ends before its *)
(* timeout; a git command may fail for outside reasons                     *)
(***************************************************************************)
InitPush ==
    /\ tasks = [t \in {"A", "B"} |-> Task({}, 0)]
    /\ torn = {}
    /\ locks = {}
    /\ completed_tasks = [t \in TaskIds |-> FileAbsent]
    /\ globOrder = <<"A", "B">>
    /\ upstream = {}
    /\ workspace = [a \in AgentIds |-> [commits |-> {}, staged |-> {}, worktree |-> {}]]
    /\ agents = [a \in AgentIds |-> Agent]
    /\ pc = [a \in AgentIds |-> "agent_loop"]
    /\ frame = [a \in AgentIds |-> NoFrame]
    /\ runPc = "as_completed"
    /\ report = NoReport
    /\ faults = MaxFaults
    /\ calls = 0
    /\ claimLog = [t \in TaskIds |-> [won |-> {}, raised |-> {}]]
    /\ invocations = [t \in TaskIds |-> 0]
    /\ handler \in {HandlerThat({}, {}), HandlerThat({"B"}, {})}

NextInTime ==
    \/ \E a \in AgentIds :
        \/ LoopIter(a)
        \/ CheckStats(a)
        \/ ExitCheck(a)
        \/ ClaimLock(a)
        \/ ClaimWrite(a)
        \/ ClaimGet(a)
        \/ ClaimOpen(a)
        \/ ClaimDump(a)
        \/ AfterClaim(a)
        \/ ExecSync(a)
        \/ Handler(a)
        \/ Push(a)
        \/ RetrySync(a)
        \/ RetryPush(a)
        \/ ReleaseCheck(a)
        \/ ReleaseGet(a)
        \/ ReleaseOpen(a)
        \/ ReleaseDump(a)
        \/ ReleaseCopy(a)
        \/ AfterRelease(a)
    \/ RunReturns

SpecPush == InitPush /\ [][NextInTime]_vars

(***************************************************************************)
(* SpecOrder: two agents and three independent tasks added by add_tasks as *)
(* A, B, C, where B and C have the same priority and A a higher or a lower *)
(* one; glob may list the identifiers in the order of creation or in the   *)
(* opposite one; every handler call succeeds                               *)
(***************************************************************************)
Priorities == {1, 2}
PriorityTables == {prio \in [TaskIds -> Priorities] : prio["B"] = prio["C"] /\ prio["A"] # prio["B"]}

\* lines 392-401: add_tasks adds the tasks in the order of task_descriptions
CreationOrder == <<"A", "B", "C">>

\* line 200: glob lists the task files in the order of the directory, which
\* follows the identifiers task-<uuid4 hex> and the file system
GlobOrders == {CreationOrder, <<"C", "B", "A">>}

InitOrder ==
    /\ \E prio \in PriorityTables : tasks = [t \in TaskIds |-> Task({}, prio[t])]
    /\ torn = {}
    /\ locks = {}
    /\ completed_tasks = [t \in TaskIds |-> FileAbsent]
    /\ globOrder \in GlobOrders
    /\ upstream = {}
    /\ workspace = [a \in AgentIds |-> [commits |-> {}, staged |-> {}, worktree |-> {}]]
    /\ agents = [a \in AgentIds |-> Agent]
    /\ pc = [a \in AgentIds |-> "agent_loop"]
    /\ frame = [a \in AgentIds |-> NoFrame]
    /\ runPc = "as_completed"
    /\ report = NoReport
    /\ faults = 0
    /\ calls = 0
    /\ claimLog = [t \in TaskIds |-> [won |-> {}, raised |-> {}]]
    /\ invocations = [t \in TaskIds |-> 0]
    /\ handler = HandlerThat({}, {})

SpecOrder == InitOrder /\ [][NextInTime]_vars

\* SpecFinish: as SpecOrder, and the threads of the pool all get to run: no
\* agent loop that can take a step waits for ever
SpecFinish == SpecOrder /\ \A a \in AgentIds : WF_vars(AgentStep(a))

(***************************************************************************)
(* SpecRegistry: the registry under callers that issue claim_task and      *)
(* release_task calls for any task, by any agent, in any order             *)
(***************************************************************************)
NoWorkspace == [commits |-> {}, staged |-> {}, worktree |-> {}]

InitRegistry ==
    /\ tasks = [t \in TaskIds |-> Task({}, 0)]
    /\ torn = {}
    /\ locks = {}
    /\ completed_tasks = [t \in TaskIds |-> FileAbsent]
    /\ globOrder = <<"A", "B", "C">>
    /\ upstream = {}
    /\ workspace = [a \in AgentIds |-> NoWorkspace]
    /\ agents = [a \in AgentIds |-> Agent]
    /\ pc = [a \in AgentIds |-> "idle"]
    /\ frame = [a \in AgentIds |-> NoFrame]
    /\ runPc = "not_started"
    /\ report = NoReport
    /\ faults = 0
    /\ calls = 0
    /\ claimLog = [t \in TaskIds |-> [won |-> {}, raised |-> {}]]
    /\ invocations = [t \in TaskIds |-> 0]
    /\ handler = HandlerThat({}, {})

\* the tasks the callers name
CalledTaskIds == {"A", "B"}

CallClaim(a, t) ==
    /\ pc[a] = "idle"
    /\ calls < MaxCalls
    /\ calls' = calls + 1
    /\ frame' = [frame EXCEPT ![a] = [NoFrame EXCEPT !.task = t]]
    /\ pc' = [pc EXCEPT ![a] = "claim_task"]
    /\ UNCHANGED <<tasks, torn, locks, completed_tasks, globOrder, handler, upstream, workspace,
                   agents, runPc, report, faults, claimLog, invocations>>

CallRelease(a, t, success) ==
    /\ pc[a] = "idle"
    /\ calls < MaxCalls
    /\ calls' = calls + 1
    /\ frame' = [frame EXCEPT ![a] =
                   [NoFrame EXCEPT !.task = t, !.rel_success = success,
                                   !.rel_result = IF success THEN Message ELSE None,
                                   !.rel_error = IF success THEN None ELSE Message]]
    /\ pc' = [pc EXCEPT ![a] = "release_task"]
    /\ UNCHANGED <<tasks, torn, locks, completed_tasks, globOrder, handler, upstream, workspace,
                   agents, runPc, report, faults, claimLog, invocations>>

\* the call has returned or raised; the caller goes on
CallReturns(a) ==
    /\ pc[a] \in {"claim_ret", "rel_ret"}
    /\ pc' = [pc EXCEPT ![a] = "idle"]
    /\ frame' = [frame EXCEPT ![a] = NoFrame]
    /\ UNCHANGED <<tasks, torn, locks, completed_tasks, globOrder, handler, upstream, workspace,
                   agents, runPc, report, faults, calls, claimLog, invocations>>

NextRegistry ==
    \E a \in AgentIds :
        \/ ClaimLock(a)
        \/ ClaimWrite(a)
        \/ ClaimGet(a)
        \/ ClaimOpen(a)
        \/ ClaimDump(a)
        \/ ReleaseCheck(a)
        \/ ReleaseGet(a)
        \/ ReleaseOpen(a)
        \/ ReleaseDump(a)
        \/ ReleaseCopy(a)
        \/ CallReturns(a)
        \/ \E t \in CalledTaskIds : CallClaim(a, t)
        \/ \E t \in CalledTaskIds, success \in BOOLEAN : CallRelease(a, t, success)

SpecRegistry == InitRegistry /\ [][NextRegistry]_vars

(***************************************************************************)
(* SpecRoundTrip: a caller adds a Task object with add_task and reads it    *)
(* back with get_task.  Here a Task is the Python object, its status a     *)
(* member of the enum TaskStatus, and a task file is the JSON text that     *)
(* json.dump wrote, one token per key.                                      *)
(***************************************************************************)
\* lines 38-44: the members of TaskStatus and their values
TaskStatusValue ==
    [PENDING |-> "pending", CLAIMED |-> "claimed", IN_PROGRESS |-> "in_progress",
     COMPLETED |-> "completed", FAILED |-> "failed", BLOCKED |-> "blocked"]

\* lines 68-71: asdict(self), with the status replaced by its value
to_dict(task) == [task EXCEPT !.status = TaskStatusValue[task.status]]

\* lines 73-76: TaskStatus(d['status']) looks the member up by its value;
\* cls(**d) alone would keep the string
FromDictKeepsString(d) == d
from_dict(d) ==
    [d EXCEPT !.status = CHOOSE m \in DOMAIN TaskStatusValue : TaskStatusValue[m] = d.status]

\* json.dump of a value that is None or a str, of one that is None or a
\* number, and of a list of str
JsonString(v) == IF v = None THEN <<"null">> ELSE <<"string", v>>
JsonNumber(v) == IF v = None THEN <<"null">> ELSE <<"number", v>>
JsonArray(l) == <<"array", [i \in 1..Len(l) |-> <<"string", l[i]>>]>>

\* line 121: json.dump(task.to_dict(), f, indent=2)
json_dump(d) ==
    [id |-> <<"string", d.id>>, description |-> <<"string", d.description>>,
     status |-> <<"string", d.status>>, claimed_by |-> JsonString(d.claimed_by),
     claimed_at |-> JsonNumber(d.claimed_at), completed_at |-> JsonNumber(d.completed_at),
     dependencies |-> JsonArray(d.dependencies), result |-> JsonString(d.result),
     error |-> JsonString(d.error), priority |-> <<"number", d.priority>>]

\* line 129: json.load(f): null gives None, a string a str, a number a number,
\* an array a list
JsonValue(token) == IF token[1] = "null" THEN None ELSE token[2]
JsonList(token) == [i \in 1..Len(token[2]) |-> JsonValue(token[2][i])]
json_load(text) ==
    [k \in DOMAIN text |-> IF text[k][1] = "array" THEN JsonList(text[k]) ELSE JsonValue(text[k])]

\* lines 123-129: get_task
get_task(task_id) ==
    IF task_id \notin DOMAIN tasks THEN NoTask ELSE from_dict(json_load(tasks[task_id]))

\* the Task objects the callers add
AddedTasks ==
    [id : {"A"}, description : {Message}, status : DOMAIN TaskStatusValue,
     claimed_by : {None, "agent-00"}, claimed_at : {None, Time}, completed_at : {None, Time},
     dependencies : {<<>>, <<"A", "B">>}, result : {None, Message}, error : {None, Message},
     priority : {0, 1}]

InitRoundTrip ==
    /\ tasks = <<>>
    /\ torn = {}
    /\ locks = {}
    /\ completed_tasks = [t \in TaskIds |-> FileAbsent]
    /\ globOrder = <<>>
    /\ upstream = {}
    /\ workspace = [a \in AgentIds |-> NoWorkspace]
    /\ agents = [a \in AgentIds |-> Agent]
    /\ pc = [a \in AgentIds |-> "idle"]
    /\ frame = [a \in AgentIds |-> NoFrame]
    /\ runPc = "not_started"
    /\ report = NoReport
    /\ faults = 0
    /\ calls = 0
    /\ claimLog = [t \in TaskIds |-> [won |-> {}, raised |-> {}]]
    /\ invocations = [t \in TaskIds |-> 0]
    /\ handler = HandlerThat({}, {})

\* lines 117-121: add_task(task), called while no other call is running
CallAddTask(a, task) ==
    /\ \A b \in AgentIds : pc[b] = "idle"
    /\ tasks' = (task.id :> json_dump(to_dict(task))) @@ tasks
    /\ globOrder' = IF task.id \in DOMAIN tasks THEN globOrder ELSE Append(globOrder, task.id)
    /\ frame' = [frame EXCEPT ![a] = [NoFrame EXCEPT !.task = task.id, !.added = task]]
    /\ pc' = [pc EXCEPT ![a] = "added"]
    /\ UNCHANGED <<torn, locks, completed_tasks, handler, upstream, workspace,
                   agents, runPc, report, faults, calls, claimLog, invocations>>

\* lines 123-129: get_task of the id just added
CallGetTask(a) ==
    /\ pc[a] = "added"
    /\ frame' = [frame EXCEPT ![a].got = get_task(frame[a].task)]
    /\ pc' = [pc EXCEPT ![a] = "got"]
    /\ UNCHANGED <<tasks, torn, locks, completed_tasks, globOrder, handler, upstream, workspace,
                   agents, runPc, report, faults, calls, claimLog, invocations>>

\* the caller drops the Task it got
CallDone(a) ==
    /\ pc[a] = "got"
    /\ frame' = [frame EXCEPT ![a] = NoFrame]
    /\ pc' = [pc EXCEPT ![a] = "idle"]
    /\ UNCHANGED <<tasks, torn, locks, completed_tasks, globOrder, handler, upstream, workspace,
                   agents, runPc, report, faults, calls, claimLog, invocations>>

NextRoundTrip ==
    \E a \in AgentIds :
        \/ \E task \in AddedTasks : CallAddTask(a, task)
        \/ CallGetTask(a)
        \/ CallDone(a)

SpecRoundTrip == InitRoundTrip /\ [][NextRoundTrip]_vars

(***************************************************************************)
(* Properties                                                              *)
(***************************************************************************)

\* C1: mutual exclusion of claims.  In every reachable state a task id has at
\* most one lock file, and its record, once claim_task has written it, names
\* one agent: the one whose call created the file.  At most one claim_task
\* call on the id has returned True since the id was last unlocked, and it is
\* the call of the agent the lock names; the call that created the lock has
\* returned True unless it is still running, or a release_task call on the
\* same id ran alongside it and it raised.
C1_MutualExclusion ==
    \A t \in TaskIds :
        /\ Cardinality(LocksOf(t)) <= 1
        /\ \A l \in LocksOf(t) :
              /\ l.holder \in AgentIds
              /\ l.agent_id = None =>
                    pc[l.holder] = "claim_write" /\ frame[l.holder].task = t
              /\ l.agent_id # None => l.agent_id = l.holder
        /\ Cardinality(claimLog[t].won) <= 1
        /\ claimLog[t].won # {} => LockExists(t) /\ claimLog[t].won = {LockOwner(t)}
        /\ LockExists(t) =>
              \/ LockHolder(t) \in claimLog[t].won
              \/ LockHolder(t) \in claimLog[t].raised
              \/ /\ pc[LockHolder(t)] \in {"claim_write", "claim_get", "claim_open", "claim_dump"}
                 /\ frame[LockHolder(t)].task = t
        /\ \A a \in AgentIds :
              pc[a] = "claim_ret" /\ frame[a].task = t /\ frame[a].result \in Exceptions
                => frame[a].overlap

\* two claim_task calls on the same unlocked id have returned: one True, one False
C1_Witness ==
    \E t \in TaskIds : \E a, b \in AgentIds :
        /\ pc[a] = "claim_ret" /\ frame[a].task = t /\ frame[a].result = "True"
        /\ pc[b] = "claim_ret" /\ frame[b].task = t /\ frame[b].result = "False"

\* C2: a task's status only moves pending -> claimed -> completed or failed,
\* and a completed or failed task never changes its status again.
StatusMoves ==
    {<<"pending", "claimed">>, <<"claimed", "completed">>, <<"claimed", "failed">>}

C2_StatusMonotonic ==
    [][\A t \in DOMAIN tasks :
          tasks'[t].status # tasks[t].status
            => <<tasks[t].status, tasks'[t].status>> \in StatusMoves]_vars

\* C3: the list of available tasks agent_loop obtains never holds a task one
\* of whose dependencies is not completed.
C3_AvailableRespectsDependencies ==
    [][\A a \in AgentIds :
          pc[a] = "agent_loop" /\ pc'[a] = "claim_task"
            => \A i \in DOMAIN frame'[a].available :
                  DependenciesMet(frame'[a].available[i])]_vars

\* C4: Scenario A: the handler is never invoked on C in a state where A or B
\* is not completed.
C4_ScenarioA ==
    [][invocations'["C"] # invocations["C"]
         => tasks["A"].status = "completed" /\ tasks["B"].status = "completed"]_vars

\* C5: a release_task call by an agent that does not own the task's lock,
\* whether another agent owns it or there is none, raises an error and gets
\* no further: it does not write the task file or the archive.
C5_NonOwnerReleaseRejected ==
    \A a \in AgentIds :
        ~frame[a].owned =>
            /\ pc[a] \notin {"rel_get", "rel_open", "rel_dump", "rel_copy"}
            /\ pc[a] = "rel_ret" => frame[a].result \in Exceptions

\* C6: in a run in which no agent loop has crashed, the handler has been
\* invoked at most once on every task.
C6_HandlerAtMostOnce ==
    (\A a \in AgentIds : pc[a] # "crashed")
        => \A t \in TaskIds : invocations[t] <= 1

\* C7: Scenario D: when an agent's push was rejected and the retry after the
\* sync reports success, the shared repository contains every output that
\* agent has committed.
C7_PushContention ==
    \A a \in AgentIds :
        /\ pc[a] = "release_task"
        /\ frame[a].first_push = "rejected"
        /\ frame[a].push_attempts = 2
        /\ frame[a].push_success
        => workspace[a].commits \subseteq upstream

\* C8: if the handler succeeded and both the push and its retry failed, the
\* task is released as failed.
C8_PushFailureFailsTask ==
    \A a \in AgentIds :
        /\ pc[a] = "release_task"
        /\ frame[a].mode = "try"
        /\ frame[a].success
        /\ frame[a].push_attempts = 2
        /\ ~frame[a].push_success
        => ~frame[a].rel_success

\* C9: with a successful handler push_changes is attempted once; there is a
\* second attempt exactly if the first failed, exactly one sync_workspace
\* call lies between the two, and there is no third attempt.
C9_PushRetriedOnce ==
    \A a \in AgentIds :
        LET fr == frame[a] IN
        /\ fr.push_attempts <= 2
        /\ fr.syncs_after_push <= 1
        /\ fr.push_attempts = 2
             => fr.first_push \in {"commit_failed", "rejected"} /\ fr.syncs_after_push = 1
        /\ pc[a] = "retry_push" => fr.push_attempts = 1 /\ fr.syncs_after_push = 1
        /\ pc[a] = "release_task" /\ fr.mode = "try" /\ fr.success
             => /\ fr.push_attempts >= 1
                /\ fr.first_push \in {"commit_failed", "rejected"} => fr.push_attempts = 2
                /\ fr.first_push \in {"no_changes", "pushed"} =>
                      fr.push_attempts = 1 /\ fr.syncs_after_push = 0

\* a retry has been made, and the task is about to be released
C9_Witness ==
    \E a \in AgentIds :
        /\ pc[a] = "release_task"
        /\ frame[a].success
        /\ frame[a].push_attempts = 2
        /\ frame[a].syncs_after_push = 1

\* C10: when the timeout elapses before the agent loops have finished, run
\* still returns its report; it does not end with an error.
C10_ReportOnTimeout == runPc # "raised"

\* C11: no claim_task call that an agent loop begins after the run timeout
\* has elapsed returns True.
C11_TimeoutStopsClaims ==
    \A a \in AgentIds :
        pc[a] = "claim_ret" /\ frame[a].result = "True" => ~frame[a].late

\* what release_task records for a task on which the handler returned
Reported(t) == IF handler[t] = "success" THEN "completed" ELSE "failed"

\* the handler is running on t after the run timeout has elapsed, and returns
InFlightAtTimeout(t) ==
    /\ runPc = "shutdown"
    /\ handler[t] # "raise"
    /\ \E a \in AgentIds : pc[a] = "task_handler" /\ frame[a].task = t

\* C12: a task whose handler is running when the run timeout elapses, and
\* returns, eventually has the status the handler reported, and eventually
\* has no lock.
C12_TimeoutKeepsInFlight ==
    \A t \in {"A", "B"} :
        /\ InFlightAtTimeout(t) ~> (tasks[t].status = Reported(t))
        /\ InFlightAtTimeout(t) ~> ~LockExists(t)

RECURSIVE SumOver(_, _, _)
SumOver(S, stats, counter) ==
    IF S = {} THEN 0
    ELSE LET a == CHOOSE x \in S : TRUE
         IN  stats[a][counter] + SumOver(S \ {a}, stats, counter)

\* the tasks claimed in the run.  After every claim_task that returns True the
\* loop goes into execute_task and calls the handler, so when all loops have
\* ended these are the tasks the handler was invoked on.
Attempted == {t \in DOMAIN tasks : invocations[t] > 0}

\* C13: when run returns, tasks_completed + tasks_failed summed over the
\* agents is the number of distinct tasks claimed in the run, the sum of
\* tasks_completed is task_stats['completed'] and the sum of tasks_failed is
\* task_stats['failed'].
C13_ReportAccounts ==
    runPc = "returned" =>
        LET completed == SumOver(AgentIds, report.agent_stats, "tasks_completed")
            failed == SumOver(AgentIds, report.agent_stats, "tasks_failed")
        IN  /\ completed + failed = Cardinality(Attempted)
            /\ completed = report.task_stats.completed
            /\ failed = report.task_stats.failed

\* the handler reports failure on X and success on every other task
FailsOnly(X) ==
    /\ handler[X] = "failure"
    /\ \A t \in DOMAIN tasks \ {X} : handler[t] = "success"

\* C14: Scenario C: with independent tasks and a handler that fails on X
\* only, a run that returns before the timeout leaves X failed with a
\* non-empty error and every other task completed.
C14_FailureIsolation ==
    \A X \in DOMAIN tasks :
        /\ runPc = "returned"
        /\ FailsOnly(X)
        /\ \A t \in DOMAIN tasks : tasks[t].dependencies = {}
        => /\ tasks[X].status = "failed"
           /\ tasks[X].error # None
           /\ \A t \in DOMAIN tasks \ {X} : tasks[t].status = "completed"

\* C15: whatever happens in execute_task (the handler fails or raises, a sync
\* or a push fails, release_task raises), no exception leaves execute_task
\* and ends the agent loop.
C15_ErrorsStayInTask ==
    \A a \in AgentIds : ~(pc[a] = "crashed" /\ frame[a].mode = "except")

\* a steps out of the claim_task call on t in which it created the lock
EndsCreatingCall(a, t) ==
    /\ pc[a] \in {"claim_get", "claim_open", "claim_dump"}
    /\ frame[a].task = t
    /\ pc'[a] = "claim_ret"

\* the lock of t is created in this step, by a claim_task call
LockCreated(t) ==
    ~LockExists(t) /\ LockExists(t)' =>
        \E a \in AgentIds :
            /\ pc[a] = "claim_task" /\ frame[a].task = t
            /\ LocksOf(t)' = {[task_id |-> t, agent_id |-> None, claimed_at |-> None,
                               holder |-> a]}

\* the lock of t is removed in this step, by release_task of the agent it names
LockRemoved(t) ==
    LockExists(t) /\ ~LockExists(t)' =>
        \E a \in AgentIds :
            /\ pc[a] = "release_task" /\ frame[a].task = t
            /\ LocksOf(t) = {[task_id |-> t, agent_id |-> a, claimed_at |-> Time,
                              holder |-> a]}

\* the lock of t is written in this step, by the claim_task call that created it
LockRewritten(t) ==
    LockExists(t) /\ LockExists(t)' /\ LocksOf(t)' # LocksOf(t) =>
        \E a \in AgentIds :
            /\ pc[a] = "claim_write" /\ frame[a].task = t
            /\ LocksOf(t) = {[task_id |-> t, agent_id |-> None, claimed_at |-> None,
                              holder |-> a]}
            /\ LocksOf(t)' = {[task_id |-> t, agent_id |-> a, claimed_at |-> Time,
                               holder |-> a]}

\* C16: a lock record is created only by a claim_task call, and that call
\* returns True; it is removed only by a release_task call of the agent it
\* names; nothing else removes or rewrites it.
C16_OnlyOwnerDestroys ==
    [][\A t \in TaskIds :
          /\ LockCreated(t)
          /\ LockRemoved(t)
          /\ LockRewritten(t)
          /\ \A a \in AgentIds :
                EndsCreatingCall(a, t) => frame'[a].result = "True"]_vars

\* the parts of C16 about removing and rewriting
C16_RemovalAndRewriting ==
    [][\A t \in TaskIds : LockCreated(t) /\ LockRemoved(t) /\ LockRewritten(t)]_vars

\* a step of a claim_task call of a that returns False
LosingClaimStep(a) ==
    \/ pc[a] = "claim_task" /\ pc'[a] = "claim_ret" /\ frame'[a].result = "False"
    \/ pc[a] = "claim_ret" /\ frame[a].result = "False" /\ pc'[a] # "claim_ret"

\* C17: a claim_task call that returns False changes neither the lock record
\* nor the task record: both are as they were before the call.
C17_LosingClaimNoEffect ==
    [][\A a \in AgentIds :
          LosingClaimStep(a) => UNCHANGED <<locks, tasks, torn, completed_tasks>>]_vars

\* a claim_task call has returned False on a task that another agent holds
\* and whose record names that agent
C17_Witness ==
    \E a \in AgentIds : \E t \in DOMAIN tasks :
        /\ pc[a] = "claim_ret" /\ frame[a].task = t /\ frame[a].result = "False"
        /\ LockExists(t) /\ LockOwner(t) \notin {a, None}
        /\ tasks[t].status = "claimed" /\ tasks[t].claimed_by = LockOwner(t)

\* C18: when claim_task(t, a) returns True, the task record of t has status
\* claimed and claimed_by = a, whatever claim_task and release_task calls of
\* other agents run alongside.
C18_WinningClaimRecordsOwner ==
    \A a \in AgentIds :
        pc[a] = "claim_ret" /\ frame[a].result = "True" =>
            LET t == frame[a].task IN
            /\ Readable(t)
            /\ tasks[t].status = "claimed"
            /\ tasks[t].claimed_by = a

\* agent_loop has just called get_available_tasks and got a list that is not empty
Listing(a) == pc[a] = "agent_loop" /\ pc'[a] = "claim_task"

\* every claim_task call in the list has returned False and the for loop is over
GivesUp(a) == pc[a] = "claim_ret" /\ frame[a].result = "False" /\ pc'[a] = "agent_loop"

OnlyPendingOnce(available) ==
    /\ \A i \in 1..Len(available) : tasks[available[i]].status = "pending"
    /\ \A i, j \in 1..Len(available) : i # j => available[i] # available[j]

NonIncreasingPriority(available) ==
    \A i, j \in 1..Len(available) :
        i < j => tasks[available[i]].priority >= tasks[available[j]].priority

IsPrefix(s, whole) == Len(s) <= Len(whole) /\ s = SubSeq(whole, 1, Len(s))

\* C19: get_available_tasks returns only tasks that are pending, each at most
\* once, in non-increasing priority, and agent_loop calls claim_task on them
\* in exactly that order.
C19_PriorityOrder ==
    [][\A a \in AgentIds :
          /\ Listing(a) => /\ OnlyPendingOnce(frame'[a].available)
                           /\ NonIncreasingPriority(frame'[a].available)
          /\ IsPrefix(frame'[a].attempts, frame'[a].available)
          /\ GivesUp(a) => frame[a].attempts = frame[a].available]_vars

\* an agent has been refused the task of highest priority and has claimed the
\* next task of its list, of a lower priority
C19_Witness ==
    \E a \in AgentIds :
        /\ pc[a] = "claim_ret" /\ frame[a].result = "True"
        /\ Len(frame[a].attempts) = 2
        /\ tasks[frame[a].attempts[1]].priority > tasks[frame[a].attempts[2]].priority

\* add_tasks added t before u
CreatedBefore(t, u) ==
    \E i, j \in 1..Len(CreationOrder) :
        i < j /\ CreationOrder[i] = t /\ CreationOrder[j] = u

\* C20: of two tasks of equal priority in the list of get_available_tasks, the
\* one that add_tasks added first comes first, whatever their identifiers.
C20_TieBreakByCreation ==
    [][\A a \in AgentIds :
          Listing(a) =>
              LET available == frame'[a].available IN
              \A i, j \in 1..Len(available) :
                  (i < j /\ tasks[available[i]].priority = tasks[available[j]].priority)
                      => CreatedBefore(available[i], available[j])]_vars

\* the history of a's workspace and that of the shared repository have each
\* changed a file that the other has changed too
MergeConflict(a) ==
    FilesOf(upstream \ workspace[a].commits)
        \cap FilesOf(workspace[a].commits \ upstream) # {}

\* agent a runs sync_workspace in this step
SyncStep(a) ==
    \/ pc[a] = "execute_task" /\ pc'[a] = "task_handler"
    \/ pc[a] = "retry_sync" /\ pc'[a] = "retry_push"

Unfinished == {t \in DOMAIN tasks : tasks[t].status \in {"pending", "claimed", "in_progress"}}

\* C22: when an agent loop leaves through its 'all tasks complete' check, no
\* task of the registry is pending, claimed or in progress at that moment.
C22_TerminationCheckSound ==
    [][\A a \in AgentIds :
          pc[a] = "check_stats" /\ pc'[a] = "exit_all_complete" => Unfinished = {}]_vars

\* C23: get_task right after add_task of a Task returns a Task equal to it in
\* every field, and Task.from_dict(task.to_dict()) equals the task.
C23_TaskRoundTrip ==
    \A a \in AgentIds :
        /\ pc[a] = "got" => frame[a].got = frame[a].added
        /\ pc[a] \in {"added", "got"} => from_dict(to_dict(frame[a].added)) = frame[a].added

\* a Task that is not in its default state has been added and read back
C23_Witness ==
    \E a \in AgentIds :
        /\ pc[a] = "got"
        /\ frame[a].added.status = "FAILED"
        /\ frame[a].added.claimed_by # None
        /\ frame[a].added.dependencies # <<>>
        /\ frame[a].added.error # None
        /\ frame[a].got.id = frame[a].added.id

AllExited == \A a \in AgentIds : Finished(a)
AllFinished == \A t \in DOMAIN tasks : tasks[t].status \in {"completed", "failed"}

\* C24: with independent tasks, handlers that return and no timeout, every
\* agent loop eventually exits, and once all have exited every task is
\* completed or failed.
C24_EveryTaskFinished ==
    /\ <>AllExited
    /\ [](AllExited => AllFinished)

\* agent a runs push_changes in this step
PushStep(a) ==
    \/ pc[a] = "push_changes" /\ pc'[a] # "push_changes"
    \/ pc[a] = "retry_push" /\ pc'[a] # "retry_push"

\* C25: whenever push_changes returns success, every commit of the workspace's
\* history is in the shared repository, also after an earlier push_changes
\* call that committed and was rejected.
C25_PushLeavesNothingBehind ==
    [][\A a \in AgentIds :
          PushStep(a) /\ frame'[a].push_success => workspace'[a].commits \subseteq upstream']_vars

\* a's workspace has changes to commit, and the shared repository holds a
\* commit that the workspace's history lacks
PushBehind(a) ==
    /\ workspace[a].staged \cup workspace[a].worktree # {}
    /\ ~(upstream \subseteq workspace[a].commits)

\* C26: a push_changes call from a workspace with new changes whose history
\* does not contain the head of the shared repository returns failure and
\* leaves the shared repository exactly as it was.
C26_RejectedPushKeepsUpstream ==
    [][\A a \in AgentIds :
          PushStep(a) /\ PushBehind(a) => ~frame'[a].push_success /\ upstream' = upstream]_vars

\* a push_changes call has committed new changes and has been rejected
C26_Witness ==
    \E a \in AgentIds :
        /\ pc[a] = "retry_sync" /\ frame[a].first_push = "rejected"
        /\ ~(upstream \subseteq workspace[a].commits)
        /\ ~(workspace[a].commits \subseteq upstream)

\* C27: every get_stats call, also one that runs between the claim_task and
\* release_task steps of other agents, returns without error, with total the
\* number of tasks added and the five status counts adding up to total.
C27_StatsConsistent ==
    [][\A a \in AgentIds :
          pc[a] = "get_stats" /\ pc'[a] # "get_stats" =>
              LET stats == frame'[a].stats IN
              /\ pc'[a] = "check_stats"
              /\ stats.total = Cardinality(DOMAIN tasks)
              /\ stats.pending + stats.claimed + stats.in_progress + stats.completed
                    + stats.failed = stats.total]_vars

\* C28: while the handler runs on a task the task has status in_progress, and
\* a task becomes completed or failed only from in_progress, so a finished
\* task has gone pending, claimed, in_progress, completed or failed.
C28_ThroughInProgress ==
    [][/\ \A a \in AgentIds :
            pc'[a] = "task_handler" => tasks'[frame'[a].task].status = "in_progress"
       /\ \A t \in DOMAIN tasks :
            (tasks'[t].status \in {"completed", "failed"} /\ tasks'[t].status # tasks[t].status)
                => tasks[t].status = "in_progress"]_vars

\* C29: when a release_task call of the lock owner returns normally, the lock
\* is absent, the task record exists and has status completed or failed as
\* asked, with the result or error given, and the copy in completed_tasks
\* equals the task record.
C29_ReleasePostcondition ==
    [][\A a \in AgentIds :
          pc[a] = "rel_copy" /\ pc'[a] = "rel_ret" /\ frame[a].owned =>
              LET t == frame[a].task IN
              /\ ~LockExists(t)'
              /\ Readable(t)'
              /\ tasks'[t].status = IF frame[a].rel_success THEN "completed" ELSE "failed"
              /\ tasks'[t].result = frame[a].rel_result
              /\ tasks'[t].error = frame[a].rel_error
              /\ completed_tasks'[t] = tasks'[t]]_vars

\* the tasks whose lock record names agent a as owner
OwnedLocks(a) == {t \in TaskIds : LockExists(t) /\ LockOwner(t) = a}

\* agent a is fetching or choosing tasks: lines 466-476 and the claim loop of
\* lines 480-481, before a claim_task call has returned True
Fetching(a) ==
    pc[a] \in {"agent_loop", "get_stats", "check_stats", "claim_task", "claim_write",
               "claim_get", "claim_open", "claim_dump", "claim_ret"}

AtMostOneLock == \A a \in AgentIds : Cardinality(OwnedLocks(a)) <= 1

NoneWhileFetching == \A a \in AgentIds : Fetching(a) => agents[a].current_task = None

\* C30: in every state of a run each agent is named as owner in at most one
\* lock record, current_task is a task id only while the agent owns that
\* task's lock, and current_task is None while the agent fetches or chooses
\* tasks.
C30_OneClaimPerAgent ==
    /\ AtMostOneLock
    /\ \A a \in AgentIds :
          agents[a].current_task # None => agents[a].current_task \in OwnedLocks(a)
    /\ NoneWhileFetching

\* agent a is inside execute_task and has not yet called release_task
Executing(a) ==
    pc[a] \in {"execute_task", "task_handler", "push_changes", "retry_sync", "retry_push"}

\* C30, as the code has it: each agent is named as owner in at most one lock
\* record; current_task is None while the agent fetches or chooses tasks, and
\* otherwise it is the task the agent is executing; the agent owns that
\* task's lock from the claim until its release_task call, which removes the
\* lock before current_task is reset.
C30_OneClaimWhileExecuting ==
    /\ AtMostOneLock
    /\ NoneWhileFetching
    /\ \A a \in AgentIds :
          /\ agents[a].current_task # None => agents[a].current_task = frame[a].task
          /\ Executing(a) =>
                /\ agents[a].current_task = frame[a].task
                /\ OwnedLocks(a) = {frame[a].task}

\* both agents execute a task, each owning the lock of its own, and one of
\* them has executed a task before
C30_Witness ==
    /\ \A a \in AgentIds : Executing(a) /\ agents[a].current_task \in OwnedLocks(a)
    /\ agents["agent-00"].current_task # agents["agent-01"].current_task
    /\ \E a \in AgentIds : agents[a].tasks_completed + agents[a].tasks_failed > 0

(***************************************************************************)
(* Multi-Agent Orchestration Framework (src/2026-02-06/agent_team.py):     *)
(* the TaskQueue (one tasks.json holding the list of tasks, one lock file  *)
(* per claimed task) and the agent loops of AgentTeam.run.  Here `tasks`   *)
(* is the list in tasks.json, `torn` says whether tasks.json is opened for *)
(* writing and still empty, `locks` are the files of locks/, `handler` is  *)
(* what execute_task does on each task.                                    *)
(***************************************************************************)
\* lines 52-61: a Task as add_task creates it (lines 148-152)
QueueTask(id, dependencies) ==
    [id |-> id, status |-> "pending", assigned_to |-> None, dependencies |-> dependencies,
     result |-> None, completed_at |-> None]

\* line 204: f"FAILED: {error}"
FailedResult(error) == "FAILED: " \o error

\* what the add_task calls made before the agents start leave in tasks.json
QueueScenarios ==
    { <<QueueTask("A", <<>>), QueueTask("B", <<>>)>>,
      <<QueueTask("A", <<>>), QueueTask("B", <<"A">>)>> }

TasksFile == "tasks.json"

\* the local variables of a TaskQueue call
NoCall ==
    [op |-> None, task_id |-> None, text |-> None, read |-> <<>>, idx |-> 0,
     result |-> None, acquired |-> FALSE, polls |-> 0]

\* line 109: os.open with O_CREAT | O_EXCL raises FileExistsError if the lock exists
LockFree(locksNow, task_id) == \A l \in locksNow : l.task_id # task_id

\* lines 104-114: _acquire_lock; the lock file holds the agent id
acquire_lock(locksNow, task_id, agent_id) ==
    IF LockFree(locksNow, task_id)
    THEN [ok |-> TRUE,
          locks |-> locksNow \cup {[task_id |-> task_id, agent_id |-> agent_id, holder |-> agent_id]}]
    ELSE [ok |-> FALSE, locks |-> locksNow]

\* line 122: the lock is removed only if it holds the caller's id
OwnerMatches(l, agent_id) == l.agent_id = agent_id

\* lines 116-127: _release_lock
release_lock(locksNow, task_id, agent_id) ==
    {l \in locksNow : ~(l.task_id = task_id /\ OwnerMatches(l, agent_id))}

\* the ids of the tasks that have ended, completed or failed
ended_ids(list) ==
    {list[i].id : i \in {j \in DOMAIN list : list[j].status \in {"completed", "failed"}}}

\* line 165: completed_ids
completed_ids(list) == {list[i].id : i \in {j \in DOMAIN list : list[j].status = "completed"}}

\* a claim that does not look at the dependencies
DependenciesSkipped(list, i) == TRUE

\* line 173: all(dep in completed_ids for dep in task.dependencies)
DependenciesCompleted(list, i) ==
    \A k \in DOMAIN list[i].dependencies : list[i].dependencies[k] \in completed_ids(list)

\* lines 169-174: the tasks of the list the loop of claim_task does not skip
Claimable(list, i) == list[i].status = "pending" /\ DependenciesCompleted(list, i)

\* the next list position after `from` that the loop of lines 167-181 tries to lock; 0: none
NextClaimable(list, from) ==
    LET later == {i \in DOMAIN list : i > from /\ Claimable(list, i)}
    IN  IF later = {} THEN 0 ELSE CHOOSE i \in later : \A j \in later : i <= j

\* lines 178-179
Claimed(list, i, agent_id) ==
    [list EXCEPT ![i] = [@ EXCEPT !.status = "in_progress", !.assigned_to = agent_id]]

\* a lookup by task id alone
AssignedToAnyone(list, task_id, agent_id) ==
    LET found == {i \in DOMAIN list : list[i].id = task_id}
    IN  IF found = {} THEN 0 ELSE CHOOSE i \in found : \A j \in found : i <= j

\* lines 189 and 202: the first task with this id that is assigned to the agent; 0: none
AssignedAt(list, task_id, agent_id) ==
    LET found == {i \in DOMAIN list : list[i].id = task_id /\ list[i].assigned_to = agent_id}
    IN  IF found = {} THEN 0 ELSE CHOOSE i \in found : \A j \in found : i <= j

\* lines 190-192 and 203-204
Finish(list, i, op, text) ==
    [list EXCEPT ![i] =
        IF op = "complete_task"
        THEN [@ EXCEPT !.status = "completed", !.result = text, !.completed_at = Time]
        ELSE [@ EXCEPT !.status = "failed", !.result = FailedResult(text)]]

\* lines 210-220: get_status on a list
CountQueue(list, s) == Cardinality({i \in DOMAIN list : list[i].status = s})

get_status(list) ==
    [total |-> Len(list), pending |-> CountQueue(list, "pending"),
     in_progress |-> CountQueue(list, "in_progress"),
     completed |-> CountQueue(list, "completed"), failed |-> CountQueue(list, "failed"),
     tasks |-> list]

\* the variables the TaskQueue does not use
Elsewhere ==
    <<completed_tasks, globOrder, upstream, workspace, agents, faults, claimLog, invocations>>

(***************************************************************************)
(* TaskQueue calls of agents that run as separate processes: every read of *)
(* tasks.json, every lock file operation and every write is a step.        *)
(***************************************************************************)
InitQueue ==
    /\ tasks \in QueueScenarios
    /\ torn = {}
    /\ locks = {}
    /\ completed_tasks = [t \in TaskIds |-> FileAbsent]
    /\ globOrder = <<>>
    /\ upstream = {}
    /\ workspace = [a \in AgentIds |-> NoWorkspace]
    /\ agents = [a \in AgentIds |-> Agent]
    /\ pc = [a \in AgentIds |-> "idle"]
    /\ frame = [a \in AgentIds |-> NoCall]
    /\ runPc = "not_started"
    /\ report = NoReport
    /\ faults = 0
    /\ calls = 0
    /\ claimLog = [t \in TaskIds |-> [won |-> {}, raised |-> {}]]
    /\ invocations = [t \in TaskIds |-> 0]
    /\ handler = HandlerThat({}, {})

\* a process calls claim_task(agent_id)
QueueCallClaim(a) ==
    /\ pc[a] = "idle"
    /\ calls < MaxCalls
    /\ calls' = calls + 1
    /\ frame' = [frame EXCEPT ![a] = [NoCall EXCEPT !.op = "claim_task"]]
    /\ pc' = [pc EXCEPT ![a] = "read_tasks"]
    /\ UNCHANGED <<tasks, torn, locks, runPc, report, handler>>
    /\ UNCHANGED Elsewhere

\* a process calls complete_task or fail_task(task_id, agent_id, text)
QueueCallFinish(a, op, task_id) ==
    /\ pc[a] = "idle"
    /\ calls < MaxCalls
    /\ calls' = calls + 1
    /\ frame' = [frame EXCEPT ![a] =
                    [NoCall EXCEPT !.op = op, !.task_id = task_id, !.text = Message]]
    /\ pc' = [pc EXCEPT ![a] = "read_tasks"]
    /\ UNCHANGED <<tasks, torn, locks, runPc, report, handler>>
    /\ UNCHANGED Elsewhere

\* lines 129-134, then the loops of lines 165-174, 188-189 and 201-202, which
\* touch no file: json.load raises on a file another process has truncated
QueueRead(a) ==
    /\ pc[a] = "read_tasks"
    /\ IF TasksFile \in torn
       THEN /\ frame' = [frame EXCEPT ![a].result = "JSONDecodeError"]
            /\ pc' = [pc EXCEPT ![a] = "returns"]
       ELSE LET fr == frame[a]
                i == IF fr.op = "claim_task" THEN NextClaimable(tasks, 0)
                     ELSE AssignedAt(tasks, fr.task_id, a)
            IN  IF i = 0
                THEN \* line 183: return None; lines 196 and 208: return False
                     /\ frame' = [frame EXCEPT ![a].read = tasks,
                                               ![a].result = IF fr.op = "claim_task"
                                                             THEN "None" ELSE "False"]
                     /\ pc' = [pc EXCEPT ![a] = "returns"]
                ELSE IF fr.op = "claim_task"
                THEN /\ frame' = [frame EXCEPT ![a].read = tasks, ![a].idx = i]
                     /\ pc' = [pc EXCEPT ![a] = "acquire_lock"]
                ELSE /\ frame' = [frame EXCEPT ![a].read = Finish(tasks, i, fr.op, fr.text),
                                               ![a].idx = i]
                     /\ pc' = [pc EXCEPT ![a] = "write_open"]
    /\ UNCHANGED <<tasks, torn, locks, runPc, report, handler, calls>>
    /\ UNCHANGED Elsewhere

\* line 177: _acquire_lock on the task the loop is at
QueueAcquire(a) ==
    /\ pc[a] = "acquire_lock"
    /\ LET fr == frame[a]
           got == acquire_lock(locks, fr.read[fr.idx].id, a)
           next == NextClaimable(fr.read, fr.idx)
       IN  /\ locks' = got.locks
           /\ IF got.ok
              THEN /\ frame' = [frame EXCEPT ![a].read = Claimed(fr.read, fr.idx, a),
                                             ![a].task_id = fr.read[fr.idx].id,
                                             ![a].acquired = TRUE]
                   /\ pc' = [pc EXCEPT ![a] = "write_open"]
              ELSE IF next # 0
              THEN /\ frame' = [frame EXCEPT ![a].idx = next]
                   /\ pc' = [pc EXCEPT ![a] = "acquire_lock"]
              ELSE /\ frame' = [frame EXCEPT ![a].result = "None"]
                   /\ pc' = [pc EXCEPT ![a] = "returns"]
    /\ UNCHANGED <<tasks, torn, runPc, report, handler, calls>>
    /\ UNCHANGED Elsewhere

\* line 137: open(self.tasks_file, 'w') truncates tasks.json, before any flock
QueueWriteOpen(a) ==
    /\ pc[a] = "write_open"
    /\ torn' = torn \cup {TasksFile}
    /\ pc' = [pc EXCEPT ![a] = "write_dump"]
    /\ UNCHANGED <<tasks, locks, frame, runPc, report, handler, calls>>
    /\ UNCHANGED Elsewhere

\* lines 138-140: the list is written from the start of the file
QueueWriteDump(a) ==
    /\ pc[a] = "write_dump"
    /\ tasks' = frame[a].read
    /\ torn' = torn \ {TasksFile}
    /\ IF frame[a].op = "claim_task"
       THEN \* line 181: return task
            /\ frame' = [frame EXCEPT ![a].result = frame[a].task_id]
            /\ pc' = [pc EXCEPT ![a] = "returns"]
       ELSE /\ pc' = [pc EXCEPT ![a] = "release_lock"]
            /\ UNCHANGED frame
    /\ UNCHANGED <<locks, runPc, report, handler, calls>>
    /\ UNCHANGED Elsewhere

\* lines 194-195 and 206-207: _release_lock, return True
QueueRelease(a) ==
    /\ pc[a] = "release_lock"
    /\ locks' = release_lock(locks, frame[a].task_id, a)
    /\ frame' = [frame EXCEPT ![a].result = "True"]
    /\ pc' = [pc EXCEPT ![a] = "returns"]
    /\ UNCHANGED <<tasks, torn, runPc, report, handler, calls>>
    /\ UNCHANGED Elsewhere

\* the call returns or raises; the process goes on
QueueReturns(a) ==
    /\ pc[a] = "returns"
    /\ frame' = [frame EXCEPT ![a] = NoCall]
    /\ pc' = [pc EXCEPT ![a] = "idle"]
    /\ UNCHANGED <<tasks, torn, locks, runPc, report, handler, calls>>
    /\ UNCHANGED Elsewhere

QueueStep(a) ==
    \/ QueueRead(a)
    \/ QueueAcquire(a)
    \/ QueueWriteOpen(a)
    \/ QueueWriteDump(a)
    \/ QueueRelease(a)
    \/ QueueReturns(a)

NextQueue ==
    \E a \in AgentIds :
        \/ QueueCallClaim(a)
        \/ \E op \in {"complete_task", "fail_task"}, task_id \in TaskIds :
              QueueCallFinish(a, op, task_id)
        \/ QueueStep(a)

SpecQueue == InitQueue /\ [][NextQueue]_vars

\* the TaskQueue calls of one process, or of the coroutines of one event
\* loop: a call begins when no other call is running
NextQueueCalls ==
    \E a \in AgentIds :
        \/ /\ \A b \in AgentIds : pc[b] = "idle"
           /\ \/ QueueCallClaim(a)
              \/ \E op \in {"complete_task", "fail_task"}, task_id \in TaskIds :
                    QueueCallFinish(a, op, task_id)
        \/ QueueStep(a)

SpecQueueCalls == InitQueue /\ [][NextQueueCalls]_vars

(***************************************************************************)
(* AgentTeam.run: the agents are coroutines of one event loop.  A          *)
(* coroutine runs alone from one await to the next, so a TaskQueue call    *)
(* is one step; an agent waits in asyncio.sleep (line 337) or for the      *)
(* thread that runs its task (lines 309, 349).                             *)
(***************************************************************************)
\* lines 159-183: claim_task, run without interruption
claim_task(list, locksNow, agent_id) ==
    LET free == {i \in DOMAIN list : Claimable(list, i) /\ LockFree(locksNow, list[i].id)}
    IN  IF free = {}
        THEN [task |-> None, tasks |-> list, locks |-> locksNow]
        ELSE LET i == CHOOSE k \in free : \A j \in free : k <= j
             IN  [task |-> list[i].id, tasks |-> Claimed(list, i, agent_id),
                  locks |-> acquire_lock(locksNow, list[i].id, agent_id).locks]

\* lines 185-208: complete_task (op "complete_task") and fail_task, run
\* without interruption
finish_task(op, list, locksNow, task_id, agent_id, text) ==
    LET i == AssignedAt(list, task_id, agent_id)
    IN  IF i = 0
        THEN [ok |-> FALSE, tasks |-> list, locks |-> locksNow]
        ELSE [ok |-> TRUE, tasks |-> Finish(list, i, op, text),
              locks |-> release_lock(locksNow, task_id, agent_id)]

\* what add_task calls leave in tasks.json before run: three tasks, each
\* depending on some of the earlier ones
TeamScenarios ==
    { <<QueueTask("A", <<>>), QueueTask("B", depsB), QueueTask("C", depsC)>> :
        depsB \in {<<>>, <<"A">>}, depsC \in {<<>>, <<"A">>, <<"B">>, <<"A", "B">>} }

InitTeam ==
    /\ tasks \in TeamScenarios
    /\ torn = {}
    /\ locks = {}
    /\ completed_tasks = [t \in TaskIds |-> FileAbsent]
    /\ globOrder = <<>>
    /\ upstream = {}
    /\ workspace = [a \in AgentIds |-> NoWorkspace]
    /\ agents = [a \in AgentIds |-> Agent]
    /\ pc = [a \in AgentIds |-> "created"]
    /\ frame = [a \in AgentIds |-> NoCall]
    /\ runPc = "gather"
    /\ report = NoReport
    /\ faults = 0
    /\ calls = 0
    /\ claimLog = [t \in TaskIds |-> [won |-> {}, raised |-> {}]]
    /\ invocations = [t \in TaskIds |-> 0]
    /\ \E raising \in SUBSET TaskIds : handler = HandlerThat({}, raising)

\* lines 321-349: one pass of the loop from the list and the locks given, up
\* to the next await: asyncio.sleep if claim_task returned None, else the
\* task's execution
LoopPass(a, list, locksNow) ==
    LET claim == claim_task(list, locksNow, a)
    IN  /\ tasks' = claim.tasks
        /\ locks' = claim.locks
        /\ IF claim.task = None
           THEN /\ pc' = [pc EXCEPT ![a] = "sleep"]
                /\ frame' = [frame EXCEPT ![a] = [NoCall EXCEPT !.polls = 1 - frame[a].polls]]
           ELSE /\ pc' = [pc EXCEPT ![a] = "execute_task"]
                /\ frame' = [frame EXCEPT ![a] = [NoCall EXCEPT !.task_id = claim.task]]

\* lines 316-321: the coroutine starts
TeamStart(a) ==
    /\ runPc = "gather"
    /\ pc[a] = "created"
    /\ LoopPass(a, tasks, locks)
    /\ UNCHANGED <<torn, runPc, report, handler, calls>>
    /\ UNCHANGED Elsewhere

\* line 341: status['pending'] == 0 and status['in_progress'] == 0
StopCheck(status) == status.pending = 0 /\ status.in_progress = 0

\* lines 337-344: the sleep is over; stop if nothing is pending or in
\* progress, else go round the loop
TeamWake(a) ==
    /\ runPc = "gather"
    /\ pc[a] = "sleep"
    /\ IF StopCheck(get_status(tasks))
       THEN /\ pc' = [pc EXCEPT ![a] = "stopped"]
            /\ frame' = [frame EXCEPT ![a] = NoCall]
            /\ UNCHANGED <<tasks, locks>>
       ELSE LoopPass(a, tasks, locks)
    /\ UNCHANGED <<torn, runPc, report, handler, calls>>
    /\ UNCHANGED Elsewhere

\* lines 348-365: execute_task returned and complete_task is called, or it
\* raised and fail_task is called; then the loop goes round
TeamExecuted(a) ==
    /\ runPc = "gather"
    /\ pc[a] = "execute_task"
    /\ LET task_id == frame[a].task_id
           done == IF handler[task_id] = "raise"
                   THEN finish_task("fail_task", tasks, locks, task_id, a, Message)
                   ELSE finish_task("complete_task", tasks, locks, task_id, a, Message)
       IN  LoopPass(a, done.tasks, done.locks)
    /\ UNCHANGED <<torn, runPc, report, handler, calls>>
    /\ UNCHANGED Elsewhere

\* lines 476 and 482-486: every run_loop returned
TeamReturns ==
    /\ runPc = "gather"
    /\ \A a \in AgentIds : pc[a] = "stopped"
    /\ runPc' = "returned"
    /\ report' = get_status(tasks)
    /\ UNCHANGED <<tasks, torn, locks, pc, frame, handler, calls>>
    /\ UNCHANGED Elsewhere

\* lines 471-486: the timeout elapsed; wait_for cancels gather and with it
\* every run_loop still waiting, which gets CancelledError at its await
\* (not an Exception: line 361 does not catch it), then run returns the status
TeamTimeout ==
    /\ runPc = "gather"
    /\ \A a \in AgentIds : pc[a] # "created"
    /\ \E a \in AgentIds : pc[a] # "stopped"
    /\ pc' = [a \in AgentIds |-> IF pc[a] = "stopped" THEN "stopped" ELSE "cancelled"]
    /\ runPc' = "returned"
    /\ report' = get_status(tasks)
    /\ UNCHANGED <<tasks, torn, locks, frame, handler, calls>>
    /\ UNCHANGED Elsewhere

TeamStep(a) ==
    \/ TeamStart(a)
    \/ TeamWake(a)
    \/ TeamExecuted(a)

\* run(timeout=None)
NextTeamNoTimeout ==
    \/ \E a \in AgentIds : TeamStep(a)
    \/ TeamReturns

NextTeam ==
    \/ \E a \in AgentIds : TeamStep(a)
    \/ TeamReturns
    \/ TeamTimeout

SpecTeam == InitTeam /\ [][NextTeam]_vars

\* every coroutine that can run does run: the event loop is fair
SpecTeamNoTimeout ==
    /\ InitTeam
    /\ [][NextTeamNoTimeout]_vars
    /\ \A a \in AgentIds : WF_vars(TeamStep(a))
    /\ WF_vars(TeamReturns)

(***************************************************************************)
(* Properties of the TaskQueue                                             *)
(***************************************************************************)
\* agent a's claim_task call takes the lock of the task it is at
ClaimAcquires(a) ==
    pc[a] = "acquire_lock" /\ pc'[a] = "write_open"

\* agent a's claim_task call returns the task it locked
ClaimReturnsTask(a) ==
    pc[a] = "write_dump" /\ frame[a].op = "claim_task" /\ pc'[a] = "returns"

\* agent a's claim_task call returns None
ClaimReturnsNone(a) ==
    frame[a].op = "claim_task" /\ pc[a] # "returns" /\ pc'[a] = "returns"
        /\ frame'[a].result = "None"

\* C31: claim_task returns only a task that was pending in the list the call
\* read, with every dependency completed there, and whose lock the call has
\* just created; when it returns the task, tasks.json records the task as
\* in_progress and assigned to the agent.  It returns None only when every
\* pending task with completed dependencies was found locked, and such a call
\* has changed neither tasks.json nor any lock.
C31_ClaimRespectsStatus ==
    [][\A a \in AgentIds :
          LET fr == frame[a] IN
          /\ ClaimAcquires(a) =>
                LET task == fr.read[fr.idx] IN
                /\ task.status = "pending"
                /\ \A k \in DOMAIN task.dependencies :
                      \E j \in DOMAIN fr.read :
                          /\ fr.read[j].id = task.dependencies[k]
                          /\ fr.read[j].status = "completed"
                /\ ~LockExists(task.id)
                /\ LockExists(task.id)' /\ LockOwner(task.id)' = a
          /\ ClaimReturnsTask(a) =>
                /\ frame'[a].result = fr.task_id
                /\ tasks'[fr.idx].id = fr.task_id
                /\ tasks'[fr.idx].status = "in_progress"
                /\ tasks'[fr.idx].assigned_to = a
                /\ LockExists(fr.task_id) /\ LockOwner(fr.task_id) = a
          /\ (pc[a] = "acquire_lock" /\ frame'[a] # fr /\ ~ClaimAcquires(a)) =>
                LockExists(fr.read[fr.idx].id)
          /\ ClaimReturnsNone(a) => ~fr.acquired
          /\ (fr.op = "claim_task" /\ ~fr.acquired /\ ~ClaimAcquires(a)
                    /\ (pc'[a] # pc[a] \/ frame'[a] # fr)) =>
                UNCHANGED <<tasks, torn, locks>>]_vars

\* a claim_task call returns None because the one task it could claim is
\* locked, while the other task is in progress for the other agent
C31_Witness ==
    \E a \in AgentIds :
        /\ pc[a] = "returns" /\ frame[a].op = "claim_task" /\ frame[a].result = "None"
        /\ \E i \in DOMAIN frame[a].read :
              Claimable(frame[a].read, i) /\ LockExists(frame[a].read[i].id)
        /\ \E i \in DOMAIN tasks :
              tasks[i].status = "in_progress" /\ tasks[i].assigned_to \in AgentIds \ {a}

\* agent a's claim_task call has returned task t
ClaimReturned(a, t) ==
    pc[a] = "returns" /\ frame[a].op = "claim_task" /\ frame[a].result = t

\* tasks.json records task t as in progress for agent a
RecordedInProgress(t, a) ==
    \E i \in DOMAIN tasks :
        tasks[i].id = t /\ tasks[i].status = "in_progress" /\ tasks[i].assigned_to = a

\* C32: once the claim_task calls of two agents that run as separate processes
\* have both returned, each with the lock of a different task, tasks.json
\* records both tasks as in_progress, each assigned to the agent that claimed
\* it: neither status update is overwritten by the other call's write.
C32_NoLostUpdate ==
    \A t, u \in TaskIds :
        (t # u /\ ClaimReturned("agent-00", t) /\ ClaimReturned("agent-01", u)) =>
            RecordedInProgress(t, "agent-00") /\ RecordedInProgress(u, "agent-01")

\* some dependency of the task at position i of tasks.json has status failed
DependencyFailed(i) ==
    \E k \in DOMAIN tasks[i].dependencies :
        \E j \in DOMAIN tasks :
            tasks[j].id = tasks[i].dependencies[k] /\ tasks[j].status = "failed"

\* C33: a failed task stays failed, and a task with a failed dependency is
\* pending and unlocked and no step changes it: it is never claimed and never
\* moved to another status.
C33_FailedDependencyNotPropagated ==
    [][\A i \in DOMAIN tasks :
          /\ tasks[i].status = "failed" => tasks'[i].status = "failed"
          /\ DependencyFailed(i) =>
                /\ tasks[i].status = "pending"
                /\ tasks'[i] = tasks[i]
                /\ ~LockExists(tasks[i].id) /\ ~LockExists(tasks[i].id)'
                /\ \A a \in AgentIds : frame'[a].task_id # tasks[i].id]_vars

\* a dependency has failed, every task that does not depend on it has ended,
\* and both agents have gone round the loop without getting the dependent task
C33_Witness ==
    /\ \E i \in DOMAIN tasks : DependencyFailed(i)
    /\ \E i \in DOMAIN tasks : tasks[i].status = "completed"
    /\ \A i \in DOMAIN tasks : tasks[i].status \in {"completed", "failed"} \/ DependencyFailed(i)
    /\ \A a \in AgentIds : pc[a] = "sleep" /\ frame[a].polls = 0

\* C34: with max_iterations unset and no timeout, every agent's run_loop
\* eventually leaves its loop at the 'all tasks completed' exit, whether or
\* not a task has failed that other tasks depend on.
C34_RunLoopTerminates == <>(\A a \in AgentIds : pc[a] = "stopped")

\* run has returned after its timeout elapsed
ReturnedAfterTimeout ==
    runPc = "returned" /\ \E a \in AgentIds : pc[a] = "cancelled"

\* C36: when AgentTeam.run has returned after its timeout, every task an agent
\* had claimed is completed or failed and its lock file is removed: no task is
\* in_progress and no lock is held.
C36_TimeoutLeavesNothingInFlight ==
    ReturnedAfterTimeout =>
        /\ \A i \in DOMAIN tasks :
              /\ tasks[i].status # "in_progress"
              /\ tasks[i].assigned_to # None => tasks[i].status \in {"completed", "failed"}
        /\ locks = {}

\* the task with this id in a list, if agent_id is its assignee
AssigneeOf(list, task_id, agent_id) ==
    \E i \in DOMAIN list : list[i].id = task_id /\ list[i].assigned_to = agent_id

\* agent a is in a complete_task or fail_task call
Finishing(a) == frame[a].op \in {"complete_task", "fail_task"}

\* C35: complete_task and fail_task called with an agent id that is not the
\* task's assigned_to, or with an unknown task id, return False and leave
\* tasks.json and the lock files as they are; called by the assignee they
\* return True, having set the task completed or failed with the result, and
\* the task's lock is removed.
C35_FinishOnlyByAssignee ==
    [][\A a \in AgentIds :
          LET fr == frame[a] IN
          /\ (Finishing(a) /\ pc[a] = "read_tasks" /\ pc'[a] # "read_tasks") =>
                IF AssigneeOf(tasks, fr.task_id, a)
                THEN pc'[a] = "write_open"
                ELSE /\ pc'[a] = "returns" /\ frame'[a].result = "False"
                     /\ UNCHANGED <<tasks, torn, locks>>
          /\ (Finishing(a) /\ pc[a] = "release_lock" /\ pc'[a] = "returns") =>
                /\ frame'[a].result = "True"
                /\ ~LockExists(fr.task_id)'
                /\ \E i \in DOMAIN tasks :
                      /\ tasks'[i].id = fr.task_id
                      /\ tasks'[i].assigned_to = a
                      /\ tasks'[i].status =
                            IF fr.op = "complete_task" THEN "completed" ELSE "failed"
                      /\ tasks'[i].result =
                            IF fr.op = "complete_task" THEN fr.text ELSE FailedResult(fr.text)
                      /\ \A j \in DOMAIN tasks \ {i} : tasks'[j] = fr.read[j]]_vars

\* the assignee's fail_task has returned True and the task is recorded as
\* failed, after at least two earlier TaskQueue calls
C35_Witness ==
    \E a \in AgentIds :
        /\ pc[a] = "returns" /\ frame[a].op = "fail_task" /\ frame[a].result = "True"
        /\ \E i \in DOMAIN tasks : tasks[i].id = frame[a].task_id /\ tasks[i].status = "failed"
        /\ calls >= 3

(***************************************************************************)
(* Agent Teams Orchestration (src/2026-02-13/agent_teams.py): the          *)
(* in-memory AgentTeamOrchestrator.  run_orchestration is one coroutine;   *)
(* `tasks` is self.tasks, `agents` is self.agents, `globOrder` is          *)
(* self.task_queue, `completed_tasks` is self.completed_tasks, `runPc` is  *)
(* the statement run_orchestration is at and `frame` holds its locals.     *)
(***************************************************************************)
\* line 50: self.task_queue
task_queue == globOrder

\* lines 17-22: the roles of the agents and tasks modelled
AgentRole == {"researcher", "analyst"}

\* lines 24-35: a Task as created
TeamTask(id, role_requirement, dependencies) ==
    [id |-> id, role_requirement |-> role_requirement, dependencies |-> dependencies,
     result |-> None, status |-> "pending", assigned_agent |-> None]

\* lines 37-44: an Agent as created
TeamAgent(role) == [role |-> role, is_busy |-> FALSE, current_task |-> None]

\* the order of self.agents: that of the add_agent calls (lines 53-56)
AgentOrder == <<"agent-00", "agent-01">>

\* the locals of run_orchestration (lines 155-168)
NoLocals == [ready_tasks |-> <<>>, idx |-> 0, running_tasks |-> <<>>, task_id |-> None]

\* lines 58-62: the create_task calls made before run_orchestration
InitOrchestration ==
    /\ \E roleA, roleB, roleC \in AgentRole :
       \E depsB \in {<<>>, <<"A">>}, depsC \in {<<>>, <<"A">>, <<"B">>, <<"A", "B">>} :
          tasks = [t \in TaskIds |->
                     CASE t = "A" -> TeamTask("A", roleA, <<>>)
                       [] t = "B" -> TeamTask("B", roleB, depsB)
                       [] OTHER -> TeamTask("C", roleC, depsC)]
    /\ agents \in {[a \in AgentIds |-> TeamAgent(role[a])] : role \in [AgentIds -> AgentRole]}
    /\ globOrder = <<"A", "B", "C">>
    /\ completed_tasks = <<>>
    /\ runPc = "while"
    /\ frame = NoLocals
    /\ torn = {}
    /\ locks = {}
    /\ upstream = {}
    /\ workspace = [a \in AgentIds |-> NoWorkspace]
    /\ pc = [a \in AgentIds |-> "idle"]
    /\ report = NoReport
    /\ faults = 0
    /\ calls = 0
    /\ claimLog = [t \in TaskIds |-> [won |-> {}, raised |-> {}]]
    /\ invocations = [t \in TaskIds |-> 0]
    /\ handler = HandlerThat({}, {})

\* the variables the orchestrator does not use
OutsideOrchestration ==
    <<torn, locks, upstream, workspace, pc, report, faults, calls, claimLog, invocations, handler>>

SeqRange(s) == {s[i] : i \in DOMAIN s}

\* lines 109-112: can_start_task
can_start_task(task_id) ==
    \A k \in DOMAIN tasks[task_id].dependencies :
        tasks[task_id].dependencies[k] \in SeqRange(completed_tasks)

\* lines 102-107: find_available_agent, the first agent of self.agents with
\* the role that is not busy; None if there is none
find_available_agent(role_requirement) ==
    LET free == {i \in DOMAIN AgentOrder :
                    /\ agents[AgentOrder[i]].role = role_requirement
                    /\ ~agents[AgentOrder[i]].is_busy}
    IN  IF free = {} THEN None
        ELSE AgentOrder[CHOOSE i \in free : \A j \in free : i <= j]

\* line 165: task_queue.remove(task_id)
Removed(queue, task_id) == SelectSeq(queue, LAMBDA t : t # task_id)

\* lines 153-159: the loop test and the ready tasks
OrchWhile ==
    /\ runPc = "while"
    /\ IF task_queue # <<>> \/ \E a \in AgentIds : agents[a].is_busy
       THEN /\ runPc' = "for"
            /\ frame' = [NoLocals EXCEPT
                            !.ready_tasks = SelectSeq(task_queue, can_start_task), !.idx = 1]
       ELSE \* line 172
            /\ runPc' = "complete"
            /\ frame' = NoLocals
    /\ UNCHANGED <<tasks, agents, globOrder, completed_tasks>>
    /\ UNCHANGED OutsideOrchestration

\* lines 162-163 and 114-127: the next ready task; execute_task returns False
\* if no agent is available, else it assigns the task and awaits the work
OrchFor ==
    /\ runPc = "for"
    /\ frame.idx <= Len(frame.ready_tasks)
    /\ LET task_id == frame.ready_tasks[frame.idx]
           agent_id == find_available_agent(tasks[task_id].role_requirement)
       IN  IF agent_id = None
           THEN /\ frame' = [frame EXCEPT !.idx = @ + 1]
                /\ UNCHANGED <<tasks, agents, runPc>>
           ELSE /\ agents' = [agents EXCEPT ![agent_id].is_busy = TRUE,
                                            ![agent_id].current_task = task_id]
                /\ tasks' = [tasks EXCEPT ![task_id].assigned_agent = agent_id,
                                          ![task_id].status = "running"]
                /\ frame' = [frame EXCEPT !.task_id = task_id]
                /\ runPc' = "work"
    /\ UNCHANGED <<globOrder, completed_tasks>>
    /\ UNCHANGED OutsideOrchestration

\* lines 129-147 and 164-166: simulate_agent_work returned; the task is
\* completed, the agent freed, execute_task returns True, and the task leaves
\* the queue
OrchWork ==
    /\ runPc = "work"
    /\ LET task_id == frame.task_id
           agent_id == tasks[task_id].assigned_agent
       IN  /\ tasks' = [tasks EXCEPT ![task_id].result = Message,
                                     ![task_id].status = "completed"]
           /\ completed_tasks' = Append(completed_tasks, task_id)
           /\ agents' = [agents EXCEPT ![agent_id].is_busy = FALSE,
                                       ![agent_id].current_task = None]
           /\ task_queue' = Removed(task_queue, task_id)
           /\ frame' = [frame EXCEPT !.running_tasks = Append(@, task_id),
                                     !.idx = @ + 1, !.task_id = None]
    /\ runPc' = "for"
    /\ UNCHANGED OutsideOrchestration

\* lines 168-170: the for loop is over; sleep if no task was started
OrchForOver ==
    /\ runPc = "for"
    /\ frame.idx > Len(frame.ready_tasks)
    /\ runPc' = IF frame.running_tasks = <<>> THEN "sleep" ELSE "while"
    /\ UNCHANGED <<tasks, agents, globOrder, completed_tasks, frame>>
    /\ UNCHANGED OutsideOrchestration

\* line 170: asyncio.sleep(0.1) is over
OrchSleep ==
    /\ runPc = "sleep"
    /\ runPc' = "while"
    /\ UNCHANGED <<tasks, agents, globOrder, completed_tasks, frame>>
    /\ UNCHANGED OutsideOrchestration

NextOrchestration ==
    \/ OrchWhile
    \/ OrchFor
    \/ OrchWork
    \/ OrchForOver
    \/ OrchSleep

\* the event loop runs the coroutine whenever it can run
SpecOrchestration ==
    InitOrchestration /\ [][NextOrchestration]_vars /\ WF_vars(NextOrchestration)

\* tasks t and u are queued with all dependencies completed, and two
\* different idle agents hold the roles they require
ReadyForTwo(t, u) ==
    /\ t # u
    /\ t \in SeqRange(task_queue) /\ u \in SeqRange(task_queue)
    /\ can_start_task(t) /\ can_start_task(u)
    /\ \E a, b \in AgentIds :
          /\ a # b
          /\ ~agents[a].is_busy /\ agents[a].role = tasks[t].role_requirement
          /\ ~agents[b].is_busy /\ agents[b].role = tasks[u].role_requirement

\* C37: when two queued tasks have all dependencies completed and require
\* roles held by two different idle agents, run_orchestration reaches a state
\* in which both tasks are running at the same time.
C37_ParallelExecution ==
    \A t, u \in TaskIds :
        ReadyForTwo(t, u) ~> (tasks[t].status = "running" /\ tasks[u].status = "running")

\* in every state of run_orchestration at most one task is running and at
\* most one agent is busy
OneTaskAtATime ==
    /\ Cardinality({t \in TaskIds : tasks[t].status = "running"}) <= 1
    /\ Cardinality({a \in AgentIds : agents[a].is_busy}) <= 1

====
